---- MODULE Spec2Model ----
(***************************************************************************)
(* Model of bot.py: the per-chat conversation handlers (schedule,          *)
(* personal info, concern), the one-shot command handlers, the process-    *)
(* wide set pending_notifications and the background task notify_pending.  *)
(*                                                                         *)
(* Texts are strings; the field validators and record parsers are computed *)
(* character by character the way the Python code computes them.           *)
(*                                                                         *)
(* Spec is the whole program with one chat sending updates, SpecNotify the *)
(* registry and the background task with every chat, FairSpecNotify the    *)
(* same with the task scheduled fairly, and SpecValidators the validators  *)
(* and parsers called on their own.                                        *)
(***************************************************************************)
EXTENDS Integers, Sequences, FiniteSets, TLC

(***************************************************************************)
(* Bounds of the model.                                                    *)
(***************************************************************************)
\* number of chats known to the bot
NumChats == 2
\* number of entries of TextList the chats may send as non-command text
NumTexts == 4

(***************************************************************************)
(* Python str primitives, on text of ASCII characters and of the two       *)
(* letters U+0149 and U+02BC (the one letter whose case mapping makes      *)
(* str.capitalize() give another result when applied twice, and the letter *)
(* it is mapped to).                                                       *)
(***************************************************************************)
Ch(s, i) == SubSeq(s, i, i)

\* U+0149 LATIN SMALL LETTER N PRECEDED BY APOSTROPHE. A string of this
\* language cannot hold that code point (the lexer rejects the code points
\* above U+00FF whose low byte is below 0x80), so the private-use code point
\* U+E0C9, which occurs in no text of a chat, is written for it: wherever
\* this character occurs in a string of the model, the Python string has
\* U+0149.
SMALL_N_PRECEDED_BY_APOSTROPHE == ""

\* U+02BC MODIFIER LETTER APOSTROPHE, written as itself: a letter without
\* case
MODIFIER_LETTER_APOSTROPHE == "ʼ"

ToLowerMap ==
    [A |-> "a", B |-> "b", C |-> "c", D |-> "d", E |-> "e", F |-> "f", G |-> "g",
     H |-> "h", I |-> "i", J |-> "j", K |-> "k", L |-> "l", M |-> "m", N |-> "n",
     O |-> "o", P |-> "p", Q |-> "q", R |-> "r", S |-> "s", T |-> "t", U |-> "u",
     V |-> "v", W |-> "w", X |-> "x", Y |-> "y", Z |-> "z"]

ToUpperMap ==
    [a |-> "A", b |-> "B", c |-> "C", d |-> "D", e |-> "E", f |-> "F", g |-> "G",
     h |-> "H", i |-> "I", j |-> "J", k |-> "K", l |-> "L", m |-> "M", n |-> "N",
     o |-> "O", p |-> "P", q |-> "Q", r |-> "R", s |-> "S", t |-> "T", u |-> "U",
     v |-> "V", w |-> "W", x |-> "X", y |-> "Y", z |-> "Z"]

DigitValue ==
    [c \in {"0", "1", "2", "3", "4", "5", "6", "7", "8", "9"} |->
        CASE c = "0" -> 0 [] c = "1" -> 1 [] c = "2" -> 2 [] c = "3" -> 3
          [] c = "4" -> 4 [] c = "5" -> 5 [] c = "6" -> 6 [] c = "7" -> 7
          [] c = "8" -> 8 [] c = "9" -> 9]

DigitChar == <<"0", "1", "2", "3", "4", "5", "6", "7", "8", "9">>

IsUpperChar(c) == c \in DOMAIN ToLowerMap
IsLowerChar(c) == c \in DOMAIN ToUpperMap
IsAlphaChar(c) == IsUpperChar(c) \/ IsLowerChar(c)
IsDigitChar(c) == c \in DOMAIN DigitValue
\* the ASCII whitespace of str.strip() and str.split(): space, tab, newline,
\* carriage return, form feed, and (written as the characters themselves)
\* vertical tab and the separators 0x1c, 0x1d, 0x1e, 0x1f
IsSpaceChar(c) ==
    c \in {" ", "\t", "\n", "\r", "\f", "", "", "", "", ""}

\* str.isupper() or str.islower() of one character: the character has a case
IsCasedChar(c) == IsAlphaChar(c) \/ c = SMALL_N_PRECEDED_BY_APOSTROPHE

\* the lower-case mapping of one character: U+0149 is in lower case and
\* U+02BC has no case
LowerChar(c) == IF IsUpperChar(c) THEN ToLowerMap[c] ELSE c

\* the upper-case mapping of one character: U+0149 has no upper-case letter
\* of its own and maps to the two characters U+02BC, "N"
UpperChar(c) ==
    IF IsLowerChar(c) THEN ToUpperMap[c]
    ELSE IF c = SMALL_N_PRECEDED_BY_APOSTROPHE THEN MODIFIER_LETTER_APOSTROPHE \o "N"
    ELSE c

\* the title-case mapping of one character, which for these characters is
\* the upper-case mapping
TitleChar(c) == UpperChar(c)

\* str.lower()
RECURSIVE Lower(_)
Lower(s) == IF s = "" THEN "" ELSE LowerChar(Ch(s, 1)) \o Lower(SubSeq(s, 2, Len(s)))

\* str.upper()
RECURSIVE Upper(_)
Upper(s) == IF s = "" THEN "" ELSE UpperChar(Ch(s, 1)) \o Upper(SubSeq(s, 2, Len(s)))

\* str.capitalize(): the title-case mapping of the first character, which
\* may be two characters, then the rest in lower case
Capitalize(s) ==
    IF s = "" THEN "" ELSE TitleChar(Ch(s, 1)) \o Lower(SubSeq(s, 2, Len(s)))

\* str.title(): a character after a character without case gets its
\* title-case mapping, a character after a cased one its lower-case mapping;
\* `prev` tells whether the previous character of s was cased
RECURSIVE TitleFrom(_, _)
TitleFrom(s, prev) ==
    IF s = "" THEN ""
    ELSE LET c == Ch(s, 1)
         IN (IF prev THEN LowerChar(c) ELSE TitleChar(c))
               \o TitleFrom(SubSeq(s, 2, Len(s)), IsCasedChar(c))

Title(s) == TitleFrom(s, FALSE)

RECURSIVE LStrip(_)
LStrip(s) ==
    IF s # "" /\ IsSpaceChar(Ch(s, 1)) THEN LStrip(SubSeq(s, 2, Len(s))) ELSE s

RECURSIVE RStrip(_)
RStrip(s) ==
    IF s # "" /\ IsSpaceChar(Ch(s, Len(s))) THEN RStrip(SubSeq(s, 1, Len(s) - 1)) ELSE s

\* str.strip()
Strip(s) == RStrip(LStrip(s))

\* s[:n]
Prefix(s, n) == SubSeq(s, 1, IF n < Len(s) THEN n ELSE Len(s))

\* s.startswith(p)
StartsWith(s, p) == Len(s) >= Len(p) /\ SubSeq(s, 1, Len(p)) = p

\* sub in s
Contains(s, sub) ==
    \E i \in 1..(Len(s) - Len(sub) + 1) : SubSeq(s, i, i + Len(sub) - 1) = sub

\* s.replace(" ", "")
RECURSIVE RemoveSpaces(_)
RemoveSpaces(s) ==
    IF s = "" THEN ""
    ELSE (IF Ch(s, 1) = " " THEN "" ELSE Ch(s, 1)) \o RemoveSpaces(SubSeq(s, 2, Len(s)))

\* re.sub(r'[^0-9]', '', s)
RECURSIVE KeepDigits(_)
KeepDigits(s) ==
    IF s = "" THEN ""
    ELSE (IF IsDigitChar(Ch(s, 1)) THEN Ch(s, 1) ELSE "") \o KeepDigits(SubSeq(s, 2, Len(s)))

\* str.isdigit(): non-empty and every character a digit
IsDigit(s) == s # "" /\ \A i \in 1..Len(s) : IsDigitChar(Ch(s, i))

\* int(s) for a non-empty string of digits
RECURSIVE ToInt(_)
ToInt(s) ==
    IF s = "" THEN 0
    ELSE 10 * ToInt(SubSeq(s, 1, Len(s) - 1)) + DigitValue[Ch(s, Len(s))]

\* str(n) for n >= 0
RECURSIVE IntToStr(_)
IntToStr(n) ==
    IF n < 10 THEN DigitChar[n + 1] ELSE IntToStr(n \div 10) \o DigitChar[(n % 10) + 1]

\* f"{n}": no zero padding
Pad2_unpadded(n) == IntToStr(n)

\* f"{n:02d}" for n >= 0
Pad2(n) == IF n < 10 THEN "0" \o IntToStr(n) ELSE IntToStr(n)

\* s.split(sep) for a one-character separator: always at least one part
RECURSIVE SplitFrom(_, _, _)
SplitFrom(s, sep, cur) ==
    IF s = "" THEN <<cur>>
    ELSE IF Ch(s, 1) = sep
         THEN <<cur>> \o SplitFrom(SubSeq(s, 2, Len(s)), sep, "")
         ELSE SplitFrom(SubSeq(s, 2, Len(s)), sep, cur \o Ch(s, 1))

Split(s, sep) == SplitFrom(s, sep, "")

\* [part.strip() for part in parts]
StripAll(parts) == [i \in 1..Len(parts) |-> Strip(parts[i])]

\* s.split(): the maximal runs of non-whitespace characters
RECURSIVE WordsFrom(_, _)
WordsFrom(s, cur) ==
    IF s = "" THEN (IF cur = "" THEN <<>> ELSE <<cur>>)
    ELSE IF IsSpaceChar(Ch(s, 1))
         THEN (IF cur = "" THEN <<>> ELSE <<cur>>) \o WordsFrom(SubSeq(s, 2, Len(s)), "")
         ELSE WordsFrom(SubSeq(s, 2, Len(s)), cur \o Ch(s, 1))

Words(s) == WordsFrom(s, "")

\* ' '.join(word.capitalize() for word in words)
RECURSIVE JoinCapitalized(_)
JoinCapitalized(words) ==
    IF words = <<>> THEN ""
    ELSE IF Len(words) = 1 THEN Capitalize(words[1])
    ELSE Capitalize(words[1]) \o " " \o JoinCapitalized(Tail(words))

(***************************************************************************)
(* Constants of the program.                                               *)
(***************************************************************************)
\* Python's None, as the result of a validator or parser that rejects
None == "<None>"

\* `not v` for a value that is None or a string
Falsy(v) == v = None \/ v = ""

VALID_GAMPANIN == {"S1", "S2", "R1", "R2", "S", "R", "SL1", "SL2", "SLR1", "SLR2"}

VALID_LANGUAGES ==
    {"Tag", "Eng", "Spa", "Por", "Ita", "Ger", "Fre", "Jap", "Kor",
     "Man", "Can", "Ind", "Mal", "Hin", "Ara", "Tha", "Vie", "Bur",
     "Rus", "Swa", "Tam", "Ben", "Tel", "Tur", "Cam"}

VALID_URI == {"Minister", "Min", "M", "Regular", "Reg", "R", "Student", "Stu", "S"}

DAY_FULL_NAMES ==
    [Mon |-> "Monday", Tue |-> "Tuesday", Wed |-> "Wednesday", Thu |-> "Thursday",
     Fri |-> "Friday", Sat |-> "Saturday", Sun |-> "Sunday"]

(***************************************************************************)
(* Field validators.                                                       *)
(***************************************************************************)
days_mapping ==
    [mon |-> "Mon", monday |-> "Mon", tue |-> "Tue", tuesday |-> "Tue",
     wed |-> "Wed", wednesday |-> "Wed", thu |-> "Thu", thursday |-> "Thu",
     fri |-> "Fri", friday |-> "Fri", sat |-> "Sat", saturday |-> "Sat",
     sun |-> "Sun", sunday |-> "Sun"]

\* a validator without the three-letter fallback: a token that is not a
\* key of days_mapping is returned as it is
format_day_exact(day) ==
    LET d == Lower(Strip(day))
    IN IF d \in DOMAIN days_mapping THEN days_mapping[d] ELSE d

format_day(day) ==
    LET d == Lower(Strip(day))
    IN IF d \in DOMAIN days_mapping THEN days_mapping[d] ELSE Prefix(Capitalize(d), 3)

format_time(time_str) ==
    LET t == RemoveSpaces(Upper(Strip(time_str)))
        hasPeriod == Contains(t, "AM") \/ Contains(t, "PM")
        time_part == KeepDigits(t)
        period0 == IF hasPeriod THEN (IF Contains(t, "AM") THEN "AM" ELSE "PM") ELSE ""
        hours0 == IF Len(time_part) <= 2 THEN ToInt(time_part)
                  ELSE ToInt(SubSeq(time_part, 1, Len(time_part) - 2))
        minutes == IF Len(time_part) <= 2 THEN 0
                   ELSE ToInt(SubSeq(time_part, Len(time_part) - 1, Len(time_part)))
        period == IF period0 # "" THEN period0
                  ELSE IF hours0 >= 12 THEN "PM" ELSE "AM"
        hours == IF period0 # "" THEN hours0
                 ELSE IF hours0 >= 12 THEN (IF hours0 > 12 THEN hours0 - 12 ELSE hours0)
                 ELSE IF hours0 = 0 THEN 12 ELSE hours0
    IN IF time_part = "" THEN None
       ELSE IF hours < 1 \/ hours > 12 \/ minutes < 0 \/ minutes > 59 THEN None
       ELSE IntToStr(hours) \o ":" \o Pad2(minutes) \o " " \o period

format_gampanin(code) ==
    LET c == Upper(Strip(code)) IN IF c \in VALID_GAMPANIN THEN c ELSE None

format_language(lang) ==
    LET l == Prefix(Title(Strip(lang)), 3) IN IF l \in VALID_LANGUAGES THEN l ELSE None

format_local(local) == JoinCapitalized(Words(Strip(local)))

format_name(name) == JoinCapitalized(Words(Strip(name)))

format_housing(housing) == JoinCapitalized(Words(Strip(housing)))

format_uri(uri) ==
    LET u == Title(Strip(uri))
        uri_lower == Lower(u)
    IN IF u \in VALID_URI THEN u
       ELSE IF StartsWith(uri_lower, "m") THEN "Minister"
       ELSE IF StartsWith(uri_lower, "r") THEN "Regular"
       ELSE IF StartsWith(uri_lower, "s") THEN "Student"
       ELSE None

(***************************************************************************)
(* Record parsers.  The result is the pair (data, error) of the code: on   *)
(* rejection data is None and error the message, else error is None.       *)
(*                                                                         *)
(* The invalid-gampanin message ends with ', '.join(VALID_GAMPANIN): the   *)
(* codes in the order in which the process iterates the set.  That order   *)
(* follows the hash seed of the process, drawn at random when the process  *)
(* starts, and each of the 10! orders of the codes can occur.  The result  *)
(* of parse_and_validate_schedule_input therefore keeps the message in two *)
(* parts: `error` is the message up to the joined codes, and `joined` is   *)
(* the set that is joined ({} when the message ends with no joined set).   *)
(* The message of the code is `error` followed by the elements of `joined` *)
(* separated by ", " in one of their orders: IsMessage tells whether a     *)
(* string is that message.                                                 *)
(***************************************************************************)
\* s is sep.join(set) with the separator ", " for an iteration order of set
IsJoinOf(s, set) ==
    IF set = {} THEN s = ""
    ELSE LET parts == Split(s, ",")
             item(i) == IF i = 1 THEN parts[i] ELSE SubSeq(parts[i], 2, Len(parts[i]))
         IN /\ Len(parts) = Cardinality(set)
            /\ \A i \in 2..Len(parts) : Ch(parts[i], 1) = " "
            /\ {item(i) : i \in 1..Len(parts)} = set

\* s is the error message of the result r of parse_and_validate_schedule_input
IsMessage(s, r) ==
    /\ r.error # None
    /\ StartsWith(s, r.error)
    /\ IsJoinOf(SubSeq(s, Len(r.error) + 1, Len(s)), r.joined)

ScheduleArityError ==
    "*Please provide exactly 5 values separated by commas:* day, time, local, gampanin, language"

\* a parser that validates the time before the day
parse_and_validate_schedule_input_time_first(text) ==
    LET parts == StripAll(Split(text, ","))
        day == parts[1]
        time_str == parts[2]
        local == parts[3]
        gampanin == parts[4]
        language == parts[5]
        formatted_day == format_day(day)
        formatted_time == format_time(time_str)
        formatted_gampanin == format_gampanin(gampanin)
        formatted_language == format_language(language)
        formatted_local == format_local(local)
    IN IF Len(parts) # 5 THEN [data |-> None, error |-> ScheduleArityError, joined |-> {}]
       ELSE IF Falsy(formatted_time)
       THEN [data |-> None,
             error |-> "*Invalid time:* _" \o time_str
                          \o "_. Please use formats like '5 AM', '5:30PM', '0530AM'",
             joined |-> {}]
       ELSE IF formatted_day \notin {"Mon", "Tue", "Wed", "Thu", "Fri", "Sat", "Sun"}
       THEN [data |-> None,
             error |-> "*Invalid day:* _" \o day
                          \o "_. Please use day abbreviations (Mon, Tue, etc.)",
             joined |-> {}]
       ELSE IF Falsy(formatted_gampanin)
       THEN [data |-> None,
             error |-> "*Invalid gampanin:* _" \o gampanin \o "_. Please use one of: ",
             joined |-> VALID_GAMPANIN]
       ELSE IF Falsy(formatted_language)
       THEN [data |-> None,
             error |-> "*Invalid language:* _" \o language
                          \o "_. Please use 3-letter codes like Eng, Tag, Spa",
             joined |-> {}]
       ELSE [data |-> [day |-> formatted_day,
                       day_full |-> DAY_FULL_NAMES[formatted_day],
                       time |-> formatted_time,
                       gampanin |-> formatted_gampanin,
                       language |-> formatted_language,
                       local |-> formatted_local],
             error |-> None, joined |-> {}]

parse_and_validate_schedule_input(text) ==
    LET parts == StripAll(Split(text, ","))
        day == parts[1]
        time_str == parts[2]
        local == parts[3]
        gampanin == parts[4]
        language == parts[5]
        formatted_day == format_day(day)
        formatted_time == format_time(time_str)
        formatted_gampanin == format_gampanin(gampanin)
        formatted_language == format_language(language)
        formatted_local == format_local(local)
    IN IF Len(parts) # 5 THEN [data |-> None, error |-> ScheduleArityError, joined |-> {}]
       ELSE IF formatted_day \notin {"Mon", "Tue", "Wed", "Thu", "Fri", "Sat", "Sun"}
       THEN [data |-> None,
             error |-> "*Invalid day:* _" \o day
                          \o "_. Please use day abbreviations (Mon, Tue, etc.)",
             joined |-> {}]
       ELSE IF Falsy(formatted_time)
       THEN [data |-> None,
             error |-> "*Invalid time:* _" \o time_str
                          \o "_. Please use formats like '5 AM', '5:30PM', '0530AM'",
             joined |-> {}]
       ELSE IF Falsy(formatted_gampanin)
       THEN [data |-> None,
             error |-> "*Invalid gampanin:* _" \o gampanin \o "_. Please use one of: ",
             joined |-> VALID_GAMPANIN]
       ELSE IF Falsy(formatted_language)
       THEN [data |-> None,
             error |-> "*Invalid language:* _" \o language
                          \o "_. Please use 3-letter codes like Eng, Tag, Spa",
             joined |-> {}]
       ELSE [data |-> [day |-> formatted_day,
                       day_full |-> DAY_FULL_NAMES[formatted_day],
                       time |-> formatted_time,
                       gampanin |-> formatted_gampanin,
                       language |-> formatted_language,
                       local |-> formatted_local],
             error |-> None, joined |-> {}]

PersonalInfoArityError ==
    "*Please provide exactly 8 values po separated by periods (.)*:\n"
        \o "_First Name. Last Name. Uri. Assigned Lokal. District. Housing Address. Wife Chat ID. Wife Name_\n\n"
        \o "_Example:_ Juan. Dela Cruz. Minister. V Luna. District 1. Green Condo Unit#. 55247753. Maria Dela Cruz"

WifeChatIdError == "*Wife Chat ID must be a number po.*\n\n_Example:_ 55251000053"

uri_display_map ==
    [Minister |-> "Minister", Min |-> "Minister", M |-> "Minister",
     Regular |-> "Regular", Reg |-> "Regular", R |-> "Regular",
     Student |-> "Student", Stu |-> "Student", S |-> "Student"]

\* a parser that checks the digits of the wife chat id before the uri
parse_and_validate_personal_info_digits_first(text) ==
    LET byPeriod == StripAll(Split(text, "."))
        parts == IF Len(byPeriod) # 8 THEN StripAll(Split(text, ",")) ELSE byPeriod
        first_name == parts[1]
        last_name == parts[2]
        uri == parts[3]
        lokal == parts[4]
        district == parts[5]
        housing == parts[6]
        wife_chat_id == parts[7]
        wife_name == parts[8]
        formatted_uri == format_uri(uri)
    IN IF Len(parts) # 8 THEN [data |-> None, error |-> PersonalInfoArityError]
       ELSE IF ~IsDigit(wife_chat_id)
       THEN [data |-> None, error |-> WifeChatIdError]
       ELSE IF Falsy(formatted_uri)
       THEN [data |-> None,
             error |-> "*Invalid Uri:* _" \o uri
                          \o "_. *Please use:* Minister/Min/M, Regular/Reg/R, Student/Stu/S"]
       ELSE [data |-> [first_name |-> format_name(first_name),
                       last_name |-> format_name(last_name),
                       uri |-> formatted_uri,
                       uri_display |-> IF formatted_uri \in DOMAIN uri_display_map
                                       THEN uri_display_map[formatted_uri]
                                       ELSE formatted_uri,
                       lokal |-> format_name(lokal),
                       district |-> format_name(district),
                       housing |-> format_housing(housing),
                       wife_chat_id |-> wife_chat_id,
                       wife_name |-> format_name(wife_name)],
             error |-> None]

parse_and_validate_personal_info(text) ==
    LET byPeriod == StripAll(Split(text, "."))
        parts == IF Len(byPeriod) # 8 THEN StripAll(Split(text, ",")) ELSE byPeriod
        first_name == parts[1]
        last_name == parts[2]
        uri == parts[3]
        lokal == parts[4]
        district == parts[5]
        housing == parts[6]
        wife_chat_id == parts[7]
        wife_name == parts[8]
        formatted_uri == format_uri(uri)
    IN IF Len(parts) # 8 THEN [data |-> None, error |-> PersonalInfoArityError]
       ELSE IF Falsy(formatted_uri)
       THEN [data |-> None,
             error |-> "*Invalid Uri:* _" \o uri
                          \o "_. *Please use:* Minister/Min/M, Regular/Reg/R, Student/Stu/S"]
       ELSE IF ~IsDigit(wife_chat_id)
       THEN [data |-> None, error |-> WifeChatIdError]
       ELSE [data |-> [first_name |-> format_name(first_name),
                       last_name |-> format_name(last_name),
                       uri |-> formatted_uri,
                       uri_display |-> IF formatted_uri \in DOMAIN uri_display_map
                                       THEN uri_display_map[formatted_uri]
                                       ELSE formatted_uri,
                       lokal |-> format_name(lokal),
                       district |-> format_name(district),
                       housing |-> format_housing(housing),
                       wife_chat_id |-> wife_chat_id,
                       wife_name |-> format_name(wife_name)],
             error |-> None]

(***************************************************************************)
(* Conversation states (ConversationHandler.END removes the conversation,  *)
(* so END also stands for "no conversation of this handler").              *)
(* CONCERN_INPUT is the object range(4, 5) in the code: one hashable value *)
(* used as the key of the state and as the handlers' return value; the     *)
(* model names it by its only element.                                     *)
(***************************************************************************)
END == -1
INPUT_DATA == 0
CONFIRM_DATA == 1
INFO_INPUT == 2
INFO_CONFIRM == 3
CONCERN_INPUT == 4

SHEET_NAME == "Suguan Logs"
PERSONAL_INFO_SHEET == "Per Info DB Logs"
INBOX_SHEET == "Inbox Message"
REVIEW_SHEET == "Review Request"
REGISTRATION_SHEET == "Registration"
STATS_SHEET == "Stats Request"
YES_SHEET == "Yes Log"

(***************************************************************************)
(* Inputs: the chats, the commands and the texts a chat may send.          *)
(***************************************************************************)
Chats == 1..NumChats

\* the chats that send every kind of update under Spec; the sessions of
\* different chats share nothing but pending_notifications
DialogChats == {1}

\* update.message.from_user.full_name
FullName(c) == "User " \o IntToStr(c)

\* datetime.now(PH_TZ).strftime('%Y-%m-%d %H:%M:%S') at the moment of a write
Timestamps == {"2025-05-17 08:00:00"}

Commands ==
    {"/start", "/help", "/chatid", "/guidelines", "/stats", "/yes", "/send",
     "/info", "/concern", "/review", "/submit", "/cancel"}

TextList ==
    <<"Thu, 5:45AM, Green Condo, R1, Tag",
      "Thu, 5AM, Green Condo, X1, Tag",
      "Juan. Cruz. Min. V Luna. D1. Condo. 0. None",
      "/ x",
      "mon,13,x\ny,s,english",
      "a.b.x.d.e.f.zz.h",
      "Ana, Cruz, ram, V Luna, D1, St. Peter, 000, None",
      "hello po">>

Texts == {TextList[i] : i \in 1..NumTexts}

\* filters.COMMAND: the first entity of the message is a bot_command at
\* offset 0, which Telegram sets when the text begins with "/" followed by an
\* ASCII letter, a digit or "_"; the text "/" alone is no command
IsCommand(u) ==
    /\ Len(u) >= 2
    /\ Ch(u, 1) = "/"
    /\ IsAlphaChar(Ch(u, 2)) \/ IsDigitChar(Ch(u, 2)) \/ Ch(u, 2) = "_"

\* filters.TEXT & ~filters.COMMAND
IsText(u) == u # "" /\ ~IsCommand(u)

(***************************************************************************)
(* context.user_data: a dict, modelled as a function on the keys present.  *)
(***************************************************************************)
EmptyDict == <<>>
Has(d, k) == k \in DOMAIN d
DictSet(d, k, v) == [x \in DOMAIN d \cup {k} |-> IF x = k THEN v ELSE d[x]]
DictDel(d, k) == [x \in DOMAIN d \ {k} |-> d[x]]

(***************************************************************************)
(* Operations on the set pending_notifications and on user_data.           *)
(***************************************************************************)
\* a discard that leaves the set as it is
discard_skipped(s, x) == s

\* pending_notifications.discard(chat_id)
discard(s, x) == s \ {x}

\* pending_notifications.add(chat_id)
add(s, x) == s \cup {x}

\* a successful submission that keeps user_data
clear_forgotten(d) == d

\* context.user_data.clear()
clear(d) == EmptyDict

\* dict.get(k, default)
DictGet(d, k, default) == IF Has(d, k) THEN d[k] ELSE default

(***************************************************************************)
(* State.                                                                  *)
(*                                                                         *)
(* Updates are processed one at a time (concurrent_updates is not set), so *)
(* handlers never interleave with each other; they interleave with the     *)
(* task notify_pending at their awaits.  A handler is one step for each    *)
(* stretch of its code between two awaits in which it reads or changes     *)
(* user_data, pending_notifications or the store, and the conversation     *)
(* takes the state the handler returns in the handler's last step; between *)
(* two steps the handler is suspended (running) and notify_pending may     *)
(* run.                                                                    *)
(*                                                                         *)
(* An await of reply_text or send_message completes or raises; an          *)
(* exception that the handler does not catch leaves it, and then the       *)
(* conversation stays in the state it was in.  An update is a message or   *)
(* an edited message; for an edited message update.message is None, and    *)
(* the first use of update.message raises.                                 *)
(*                                                                         *)
(* The store is reachable or not (sheets_up).  When it is not, the call    *)
(* raises one of StoreExceptions; the handlers catch APIError and          *)
(* GSpreadException only.                                                  *)
(***************************************************************************)
VARIABLES
    schedule_handler,       \* conversation state of the schedule dialog, per chat
    personal_info_handler,  \* conversation state of the personal-info dialog, per chat
    concern_handler,        \* conversation state of the concern dialog, per chat
    user_data,              \* context.user_data, per chat
    pending_notifications,  \* the module-level set
    sheets_up,              \* whether init_google_sheets/append_row succeed now
    running,                \* the handler suspended at an await ("reply": a
                            \* reply of its main path; "except": the reply of
                            \* its except clause), or Idle
    notify_pc,              \* position of notify_pending: "sleep" or "send"
    notify_list,            \* list(pending_notifications) of the current cycle
    notify_idx,             \* index in notify_list of the delivery in flight
    last                    \* what the program did last: the update handled and what
                            \* its handler did, the attempt of notify_pending, or
                            \* the call of a validator or parser and its result

vars == <<schedule_handler, personal_info_handler, concern_handler, user_data,
          pending_notifications, sheets_up, running, notify_pc, notify_list,
          notify_idx, last>>

dialog_vars == <<schedule_handler, personal_info_handler, concern_handler, user_data>>
conversation_vars == <<schedule_handler, personal_info_handler, concern_handler>>
notify_vars == <<notify_pc, notify_list, notify_idx>>

Idle == [chat |-> 0, update |-> "", name |-> "", at |-> "", rows |-> <<>>,
         before |-> EmptyDict]

\* the handler `name` of the update u of chat c, suspended at the await `at`;
\* `rows` are the rows it has appended and `before` is user_data as it found
\* it
Suspended(c, u, name, at, rows, before) ==
    [chat |-> c, update |-> u, name |-> name, at |-> at, rows |-> rows,
     before |-> before]

\* the handler `name` of an update of chat c is suspended at the await `at`
At(c, name, at) == running.chat = c /\ running.name = name /\ running.at = at

NoUpdate ==
    [chat |-> 0, update |-> "", name |-> "", outcome |-> "", ret |-> END,
     rows |-> <<>>, reply |-> "", joined |-> {}, before |-> EmptyDict]

\* what a step of a handler leaves in `last`: the update, the handler's name,
\* how far it got, the state of its conversation after the step (the state
\* it returned, when it returned), the rows it has appended, the error or
\* the date it replied with (`joined` is the set whose elements, joined by
\* ", " in the iteration order of the process, end the error it replied
\* with), and user_data as it found it.  The handler is
\* suspended after "reply" (at a reply of its main path) and after "except"
\* (it has added the chat in its except clause and awaits the reply of that
\* clause).  It has returned after "ok", "no_data" (nothing to submit),
\* "error" (the text was rejected), "notice" (its reply raised and the notice
\* of `except Exception` was sent), "no_text" (handle_schedule_input on
\* an update without message) and "write_failed" (from its except clause).
\* An exception has left it after "raised" (an exception of the store),
\* "except_raised" (of the reply of its except clause), "reply_raised" (of
\* another reply: it could not be sent, or the update has no message to
\* reply to) and "no_message" (of a use of update.message, on an update
\* without message, that is not a reply).
Handled(c, u, name, outcome, ret, rows, reply, before) ==
    [chat |-> c, update |-> u, name |-> name, outcome |-> outcome, ret |-> ret,
     rows |-> rows, reply |-> reply, joined |-> {}, before |-> before]

Init ==
    /\ schedule_handler = [c \in Chats |-> END]
    /\ personal_info_handler = [c \in Chats |-> END]
    /\ concern_handler = [c \in Chats |-> END]
    /\ user_data = [c \in Chats |-> EmptyDict]
    /\ pending_notifications = {}
    /\ sheets_up \in BOOLEAN
    /\ running = Idle
    /\ notify_pc = "sleep"
    /\ notify_list = <<>>
    /\ notify_idx = 0
    /\ last = NoUpdate

(***************************************************************************)
(* Dispatch (main): the handlers are tried in the order of add_handler and *)
(* the first one that accepts the update handles it.  A                    *)
(* ConversationHandler accepts an update when, with no conversation for    *)
(* the chat, an entry point matches, or else a handler of the current      *)
(* state or a fallback matches (allow_reentry is not set).                 *)
(***************************************************************************)
TopLevelCommands == {"/start", "/help", "/chatid", "/guidelines", "/stats", "/yes"}

\* the schedule dialog with /submit also wired in INPUT_DATA
ScheduleAccepts_submit_in_input(c, u) ==
    /\ u \notin TopLevelCommands
    /\ CASE schedule_handler[c] = END -> u = "/send"
         [] schedule_handler[c] = INPUT_DATA ->
                IsText(u) \/ u \in {"/submit", "/send", "/cancel"}
         [] schedule_handler[c] = CONFIRM_DATA ->
                IsText(u) \/ u \in {"/submit", "/send", "/cancel"}

ScheduleAccepts(c, u) ==
    /\ u \notin TopLevelCommands
    /\ CASE schedule_handler[c] = END -> u = "/send"
         [] schedule_handler[c] = INPUT_DATA -> IsText(u) \/ u \in {"/send", "/cancel"}
         [] schedule_handler[c] = CONFIRM_DATA ->
                IsText(u) \/ u \in {"/submit", "/send", "/cancel"}

PersonalInfoAccepts(c, u) ==
    /\ u \notin TopLevelCommands
    /\ ~ScheduleAccepts(c, u)
    /\ CASE personal_info_handler[c] = END -> u = "/info"
         [] personal_info_handler[c] = INFO_INPUT -> IsText(u) \/ u = "/cancel"
         [] personal_info_handler[c] = INFO_CONFIRM -> u \in {"/submit", "/info", "/cancel"}

ConcernAccepts(c, u) ==
    /\ u \notin TopLevelCommands
    /\ ~ScheduleAccepts(c, u)
    /\ ~PersonalInfoAccepts(c, u)
    /\ CASE concern_handler[c] = END -> u = "/concern"
         [] concern_handler[c] = CONCERN_INPUT -> IsText(u) \/ u \in {"/submit", "/cancel"}

ReviewAccepts(c, u) ==
    /\ u = "/review"
    /\ ~ScheduleAccepts(c, u) /\ ~PersonalInfoAccepts(c, u) /\ ~ConcernAccepts(c, u)

\* the state of the conversation that handles the update u of chat c
ConversationState(c, u) ==
    CASE ScheduleAccepts(c, u) -> schedule_handler[c]
      [] PersonalInfoAccepts(c, u) -> personal_info_handler[c]
      [] ConcernAccepts(c, u) -> concern_handler[c]
      [] OTHER -> END

\* updates are processed one at a time: none is dispatched while a handler
\* is suspended
Dispatch(c, u) == running = Idle /\ c \in Chats /\ u \in Commands \cup Texts

(***************************************************************************)
(* One-shot commands.                                                      *)
(***************************************************************************)
\* what a call of the store raises when the store cannot be reached:
\* gspread's exceptions, or one of another library (requests)
StoreExceptions == {"APIError", "GSpreadException", "ConnectionError"}

\* except (APIError, GSpreadException)
except_gspread(exc) == exc \in {"APIError", "GSpreadException"}

\* log_registration: the rows it appends; any failure is caught and printed,
\* nothing else
log_registration(c, ts) ==
    IF sheets_up
    THEN <<[sheet |-> REGISTRATION_SHEET, row |-> <<c, ts, FullName(c), "Unknown">>]>>
    ELSE <<>>

\* start: the greeting (await), log_registration, then the help text of
\* help_command (await) and the return.  When the greeting is sent the row
\* is written and the handler is suspended at the reply of help_command;
\* `delivered` is whether the greeting is sent and `helped` whether the help
\* text is.  An exception of either reply leaves the handler.
start(c) ==
    \/ /\ Dispatch(c, "/start")
       /\ \E delivered \in BOOLEAN, ts \in Timestamps :
             IF delivered
             THEN /\ running' = Suspended(c, "/start", "start", "reply",
                                          log_registration(c, ts), user_data[c])
                  /\ last' = Handled(c, "/start", "start", "reply", END,
                                     log_registration(c, ts), "", user_data[c])
             ELSE /\ last' = Handled(c, "/start", "start", "reply_raised", END, <<>>,
                                     "", user_data[c])
                  /\ UNCHANGED running
       /\ UNCHANGED <<dialog_vars, pending_notifications, sheets_up, notify_vars>>
    \/ /\ At(c, "start", "reply")
       /\ \E helped \in BOOLEAN :
             last' = Handled(c, "/start", "start",
                             IF ~helped THEN "reply_raised"
                             ELSE IF running.rows # <<>> THEN "ok" ELSE "write_failed",
                             END, running.rows, "", running.before)
       /\ running' = Idle
       /\ UNCHANGED <<dialog_vars, pending_notifications, sheets_up, notify_vars>>

help_command(c) ==
    /\ Dispatch(c, "/help")
    /\ \E delivered \in BOOLEAN :
          last' = Handled(c, "/help", "help_command",
                          IF delivered THEN "ok" ELSE "reply_raised", END, <<>>, "",
                          user_data[c])
    /\ UNCHANGED <<dialog_vars, pending_notifications, sheets_up, running, notify_vars>>

chatid_command(c) ==
    /\ Dispatch(c, "/chatid")
    /\ \E delivered \in BOOLEAN :
          last' = Handled(c, "/chatid", "chatid_command",
                          IF delivered THEN "ok" ELSE "reply_raised", END, <<>>, "",
                          user_data[c])
    /\ UNCHANGED <<dialog_vars, pending_notifications, sheets_up, running, notify_vars>>

guidelines_command(c) ==
    /\ Dispatch(c, "/guidelines")
    /\ \E delivered \in BOOLEAN :
          last' = Handled(c, "/guidelines", "guidelines_command",
                          IF delivered THEN "ok" ELSE "reply_raised", END, <<>>, "",
                          user_data[c])
    /\ UNCHANGED <<dialog_vars, pending_notifications, sheets_up, running, notify_vars>>

\* the row of a request log: [chat_id, timestamp, full_name, marker]
request_row(c, ts, marker) == <<c, ts, FullName(c), marker>>

\* the write of a request log after the first reply of stats_command,
\* yes_command or review_command: the row is appended, or the store raises;
\* a caught exception adds the chat and the handler awaits the reply of its
\* except clause
request_write(c, u, name, sheet, marker, before) ==
    IF sheets_up
    THEN /\ \E ts \in Timestamps :
               last' = Handled(c, u, name, "ok", END,
                               <<[sheet |-> sheet, row |-> request_row(c, ts, marker)]>>,
                               "", before)
         /\ running' = Idle
         /\ UNCHANGED pending_notifications
    ELSE \E exc \in StoreExceptions :
            IF except_gspread(exc)
            THEN /\ pending_notifications' = add(pending_notifications, c)
                 /\ running' = Suspended(c, u, name, "except", <<>>, before)
                 /\ last' = Handled(c, u, name, "except", END, <<>>, "", before)
            ELSE /\ last' = Handled(c, u, name, "raised", END, <<>>, "", before)
                 /\ running' = Idle
                 /\ UNCHANGED pending_notifications

\* the reply of the except clause of a handler of no conversation: the
\* handler returns, or the exception of the reply leaves it
request_except(c, u, name) ==
    /\ At(c, name, "except")
    /\ \E delivered \in BOOLEAN :
          last' = Handled(c, u, name,
                          IF delivered THEN "write_failed" ELSE "except_raised", END,
                          <<>>, "", running.before)
    /\ running' = Idle
    /\ UNCHANGED <<dialog_vars, pending_notifications, sheets_up, notify_vars>>

\* stats_command: the first reply (await) and the write; when the write
\* raises a caught exception, the add and the reply of the except clause
\* (await); then the return
stats_command(c) ==
    \/ /\ Dispatch(c, "/stats")
       /\ \E delivered \in BOOLEAN :
             IF delivered
             THEN request_write(c, "/stats", "stats_command", STATS_SHEET,
                                "Automatic stats request", user_data[c])
             ELSE /\ last' = Handled(c, "/stats", "stats_command", "reply_raised", END,
                                     <<>>, "", user_data[c])
                  /\ UNCHANGED <<pending_notifications, running>>
       /\ UNCHANGED <<dialog_vars, sheets_up, notify_vars>>
    \/ request_except(c, "/stats", "stats_command")

yes_command(c) ==
    \/ /\ Dispatch(c, "/yes")
       /\ \E delivered \in BOOLEAN :
             IF delivered
             THEN request_write(c, "/yes", "yes_command", YES_SHEET,
                                "Automatic yes request", user_data[c])
             ELSE /\ last' = Handled(c, "/yes", "yes_command", "reply_raised", END,
                                     <<>>, "", user_data[c])
                  /\ UNCHANGED <<pending_notifications, running>>
       /\ UNCHANGED <<dialog_vars, sheets_up, notify_vars>>
    \/ request_except(c, "/yes", "yes_command")

\* review_command: the discard and the first reply (await); then the write;
\* when it raises a caught exception, the add and the reply of the except
\* clause (await); then the return
review_command(c) ==
    \/ /\ Dispatch(c, "/review")
       /\ ReviewAccepts(c, "/review")
       /\ \E message \in BOOLEAN :
             IF message
             THEN /\ pending_notifications' = discard(pending_notifications, c)
                  /\ running' = Suspended(c, "/review", "review_command", "reply", <<>>,
                                          user_data[c])
                  /\ last' = Handled(c, "/review", "review_command", "reply", END, <<>>,
                                     "", user_data[c])
             ELSE /\ last' = Handled(c, "/review", "review_command", "no_message", END,
                                     <<>>, "", user_data[c])
                  /\ UNCHANGED <<pending_notifications, running>>
       /\ UNCHANGED <<dialog_vars, sheets_up, notify_vars>>
    \/ /\ At(c, "review_command", "reply")
       /\ \E delivered \in BOOLEAN :
             IF delivered
             THEN request_write(c, "/review", "review_command", REVIEW_SHEET,
                                "Automatic review request", running.before)
             ELSE /\ last' = Handled(c, "/review", "review_command", "reply_raised",
                                     END, <<>>, "", running.before)
                  /\ running' = Idle
                  /\ UNCHANGED pending_notifications
       /\ UNCHANGED <<dialog_vars, sheets_up, notify_vars>>
    \/ request_except(c, "/review", "review_command")

(***************************************************************************)
(* cancel: run by the first conversation handler that accepts /cancel; it  *)
(* clears user_data, replies (await) and ends that handler's conversation  *)
(* only.  For an update without message the reply raises after the clear.  *)
(***************************************************************************)
cancel(c) ==
    \/ /\ Dispatch(c, "/cancel")
       /\ \/ ScheduleAccepts(c, "/cancel")
          \/ PersonalInfoAccepts(c, "/cancel")
          \/ ConcernAccepts(c, "/cancel")
       /\ user_data' = [user_data EXCEPT ![c] = clear(@)]
       /\ running' = Suspended(c, "/cancel", "cancel", "reply", <<>>, user_data[c])
       /\ last' = Handled(c, "/cancel", "cancel", "reply", ConversationState(c, "/cancel"),
                          <<>>, "", user_data[c])
       /\ UNCHANGED <<conversation_vars, pending_notifications, sheets_up, notify_vars>>
    \/ /\ At(c, "cancel", "reply")
       /\ \E delivered \in BOOLEAN :
             IF delivered
             THEN /\ \/ /\ ScheduleAccepts(c, "/cancel")
                        /\ schedule_handler' = [schedule_handler EXCEPT ![c] = END]
                        /\ UNCHANGED <<personal_info_handler, concern_handler>>
                     \/ /\ PersonalInfoAccepts(c, "/cancel")
                        /\ personal_info_handler' =
                              [personal_info_handler EXCEPT ![c] = END]
                        /\ UNCHANGED <<schedule_handler, concern_handler>>
                     \/ /\ ConcernAccepts(c, "/cancel")
                        /\ concern_handler' = [concern_handler EXCEPT ![c] = END]
                        /\ UNCHANGED <<schedule_handler, personal_info_handler>>
                  /\ last' = Handled(c, "/cancel", "cancel", "ok", END, <<>>, "",
                                     running.before)
             ELSE /\ last' = Handled(c, "/cancel", "cancel", "reply_raised",
                                     ConversationState(c, "/cancel"), <<>>, "",
                                     running.before)
                  /\ UNCHANGED conversation_vars
       /\ running' = Idle
       /\ UNCHANGED <<user_data, pending_notifications, sheets_up, notify_vars>>

(***************************************************************************)
(* Schedule dialog.                                                        *)
(***************************************************************************)
\* send_command: the discard, the reply (await), then the return
send_command(c) ==
    \/ /\ Dispatch(c, "/send")
       /\ ScheduleAccepts(c, "/send")
       /\ \E message \in BOOLEAN :
             IF message
             THEN /\ pending_notifications' = discard(pending_notifications, c)
                  /\ running' = Suspended(c, "/send", "send_command", "reply", <<>>,
                                          user_data[c])
                  /\ last' = Handled(c, "/send", "send_command", "reply",
                                     schedule_handler[c], <<>>, "", user_data[c])
             ELSE /\ last' = Handled(c, "/send", "send_command", "no_message",
                                     schedule_handler[c], <<>>, "", user_data[c])
                  /\ UNCHANGED <<pending_notifications, running>>
       /\ UNCHANGED <<dialog_vars, sheets_up, notify_vars>>
    \/ /\ At(c, "send_command", "reply")
       /\ \E delivered \in BOOLEAN :
             IF delivered
             THEN /\ schedule_handler' = [schedule_handler EXCEPT ![c] = INPUT_DATA]
                  /\ last' = Handled(c, "/send", "send_command", "ok", INPUT_DATA, <<>>,
                                     "", running.before)
             ELSE /\ last' = Handled(c, "/send", "send_command", "reply_raised",
                                     schedule_handler[c], <<>>, "", running.before)
                  /\ UNCHANGED schedule_handler
       /\ running' = Idle
       /\ UNCHANGED <<personal_info_handler, concern_handler, user_data,
                      pending_notifications, sheets_up, notify_vars>>

\* datetime.datetime.now(PH_TZ).date() as a proleptic Gregorian ordinal (day 1
\* is Monday 0001-01-01): 2025-05-17, the day of Timestamps
Today == 739388

\* date.weekday(): Monday is 0, Sunday is 6
weekday(date) == (date + 6) % 7

day_mapping ==
    ("Mon" :> 0) @@ ("Tue" :> 1) @@ ("Wed" :> 2) @@ ("Thu" :> 3) @@ ("Fri" :> 4)
        @@ ("Sat" :> 5) @@ ("Sun" :> 6)

\* day_mapping.get(data['day'], 0)
target_weekday(day) == IF day \in DOMAIN day_mapping THEN day_mapping[day] ELSE 0

\* (target_weekday - current_weekday) % 7, which is never negative
days_difference(today, day) == (target_weekday(day) - weekday(today)) % 7

\* the target weekday of the week of today, without the reduction modulo 7
target_date_same_week(today, day) == today + (target_weekday(day) - weekday(today))

\* today + datetime.timedelta(days=days_difference)
target_date(today, day) == today + days_difference(today, day)

MonthNames ==
    <<"January", "February", "March", "April", "May", "June", "July", "August",
      "September", "October", "November", "December">>

\* the year, month and day of the month of a proleptic Gregorian ordinal
civil(date) ==
    LET z == date + 305
        era == z \div 146097
        doe == z - era * 146097
        yoe == (doe - (doe \div 1460) + (doe \div 36524) - (doe \div 146096)) \div 365
        doy == doe - (365 * yoe + (yoe \div 4) - (yoe \div 100))
        mp == (5 * doy + 2) \div 153
        m == IF mp < 10 THEN mp + 3 ELSE mp - 9
    IN  [year |-> yoe + era * 400 + (IF m <= 2 THEN 1 ELSE 0),
         month |-> m,
         day |-> doy - ((153 * mp + 2) \div 5) + 1]

\* date.strftime("%B %d, %Y")
strftime(date) ==
    LET c == civil(date)
    IN MonthNames[c.month] \o " " \o Pad2(c.day) \o ", " \o IntToStr(c.year)

\* date_display of handle_schedule_input for the draft's day
date_display(today, day) == strftime(target_date(today, day))

\* parse_and_validate_schedule_input on each text a chat may send
parsed_schedule == [t \in Texts |-> parse_and_validate_schedule_input(t)]

\* what handle_schedule_input does with user_data d on `text` of the user
\* full_name: the state it returns, user_data afterwards, and the error
\* replied (with the set joined at its end) or the date shown in the
\* confirmation
schedule_input_result(d, full_name, text) ==
    LET r == parsed_schedule[text]
    IN IF r.error # None
       THEN [ret |-> INPUT_DATA, user_data |-> d, outcome |-> "error",
             reply |-> r.error, joined |-> r.joined]
       ELSE [ret |-> CONFIRM_DATA,
             user_data |-> DictSet(DictSet(d, "formatted_data", r.data),
                                   "user_name", full_name),
             outcome |-> "ok", reply |-> date_display(Today, r.data.day),
             joined |-> {}]

\* handle_schedule_input.  On an update without message: the request for
\* text (await), then INPUT_DATA.  On a rejected text: the error reply
\* (await), then INPUT_DATA.  On an accepted text: the draft is stored, then
\* the confirmation (await), then CONFIRM_DATA.  The handler is suspended
\* while the error reply or the confirmation is awaited.  When that reply
\* raises, `except Exception` sends its notice (await) and returns
\* INPUT_DATA; when that raises too, the exception leaves the handler.
\* `sent` is what reached the chat: the reply, the notice, or none of them.
handle_schedule_input(c, text) ==
    \/ /\ Dispatch(c, text)
       /\ IsText(text)
       /\ ScheduleAccepts(c, text)
       /\ \E message \in BOOLEAN :
             IF ~message
             THEN /\ \E delivered \in BOOLEAN :
                        IF delivered
                        THEN /\ schedule_handler' =
                                   [schedule_handler EXCEPT ![c] = INPUT_DATA]
                             /\ last' = Handled(c, text, "handle_schedule_input",
                                                "no_text", INPUT_DATA, <<>>, "",
                                                user_data[c])
                        ELSE /\ last' = Handled(c, text, "handle_schedule_input",
                                                "reply_raised", schedule_handler[c],
                                                <<>>, "", user_data[c])
                             /\ UNCHANGED schedule_handler
                  /\ UNCHANGED <<user_data, running>>
             ELSE \E res \in {schedule_input_result(user_data[c], FullName(c), text)} :
                     /\ user_data' = [user_data EXCEPT ![c] = res.user_data]
                     /\ running' = Suspended(c, text, "handle_schedule_input",
                                             "reply", <<>>, user_data[c])
                     /\ last' = Handled(c, text, "handle_schedule_input", "reply",
                                        schedule_handler[c], <<>>,
                                        IF res.outcome = "error" THEN "" ELSE res.reply,
                                        user_data[c])
                     /\ UNCHANGED schedule_handler
       /\ UNCHANGED <<personal_info_handler, concern_handler, pending_notifications,
                      sheets_up, notify_vars>>
    \/ /\ At(c, "handle_schedule_input", "reply")
       /\ running.update = text
       /\ \E sent \in {"reply", "notice", "none"} :
             \E res \in {schedule_input_result(running.before, FullName(c), text)} :
                 CASE sent = "reply" ->
                        /\ schedule_handler' = [schedule_handler EXCEPT ![c] = res.ret]
                        /\ last' = [Handled(c, text, "handle_schedule_input",
                                            res.outcome, res.ret, <<>>, res.reply,
                                            running.before)
                                       EXCEPT !.joined = res.joined]
                   [] sent = "notice" ->
                        /\ schedule_handler' =
                              [schedule_handler EXCEPT ![c] = INPUT_DATA]
                        /\ last' = Handled(c, text, "handle_schedule_input", "notice",
                                           INPUT_DATA, <<>>, "", running.before)
                   [] sent = "none" ->
                        /\ last' = Handled(c, text, "handle_schedule_input",
                                           "reply_raised", schedule_handler[c], <<>>,
                                           "", running.before)
                        /\ UNCHANGED schedule_handler
       /\ running' = Idle
       /\ UNCHANGED <<personal_info_handler, concern_handler, user_data,
                      pending_notifications, sheets_up, notify_vars>>

\* a row with the role code and the language code exchanged
schedule_row_swapped(c, ts, data, user_name) ==
    <<c, ts, data.day, data.time, data.language, data.local, user_name, data.gampanin>>

\* row_data of submit_schedule
schedule_row(c, ts, data, user_name) ==
    <<c, ts, data.day, data.time, data.gampanin, data.local, user_name, data.language>>

\* the state submit_schedule returns after the write, failed or not
submit_schedule_return == INPUT_DATA

\* the write of a confirm.  On an update without message the store is
\* opened and nothing is appended: building the row raises, or the store
\* raises and so does the add of the except clause.  Else the row is
\* appended and the handler awaits its success reply, or the store raises:
\* a caught exception adds the chat and the handler awaits the reply of its
\* except clause.
confirm_write(c, name, sheet, row, state, message) ==
    IF ~message
    THEN /\ last' = Handled(c, "/submit", name,
                            IF sheets_up THEN "no_message" ELSE "raised", state, <<>>,
                            "", user_data[c])
         /\ UNCHANGED <<pending_notifications, running>>
    ELSE IF sheets_up
    THEN /\ running' = Suspended(c, "/submit", name, "reply",
                                 <<[sheet |-> sheet, row |-> row]>>, user_data[c])
         /\ last' = Handled(c, "/submit", name, "reply", state,
                            <<[sheet |-> sheet, row |-> row]>>, "", user_data[c])
         /\ UNCHANGED pending_notifications
    ELSE \E exc \in StoreExceptions :
            IF except_gspread(exc)
            THEN /\ pending_notifications' = add(pending_notifications, c)
                 /\ running' = Suspended(c, "/submit", name, "except", <<>>,
                                         user_data[c])
                 /\ last' = Handled(c, "/submit", name, "except", state, <<>>, "",
                                    user_data[c])
            ELSE /\ last' = Handled(c, "/submit", name, "raised", state, <<>>, "",
                                    user_data[c])
                 /\ UNCHANGED <<pending_notifications, running>>

\* submit_schedule: with no draft, the reply (await) and END.  Else the
\* write; after the row is appended the reply (await), then the clear and
\* the return; after a caught exception the add and the reply of the except
\* clause (await), then the return.
submit_schedule(c) ==
    \/ /\ Dispatch(c, "/submit")
       /\ ScheduleAccepts(c, "/submit")
       /\ IF ~Has(user_data[c], "formatted_data")
          THEN /\ \E delivered \in BOOLEAN :
                     IF delivered
                     THEN /\ schedule_handler' = [schedule_handler EXCEPT ![c] = END]
                          /\ last' = Handled(c, "/submit", "submit_schedule", "no_data",
                                             END, <<>>, "", user_data[c])
                     ELSE /\ last' = Handled(c, "/submit", "submit_schedule",
                                             "reply_raised", schedule_handler[c], <<>>,
                                             "", user_data[c])
                          /\ UNCHANGED schedule_handler
               /\ UNCHANGED <<pending_notifications, running>>
          ELSE /\ \E message \in BOOLEAN, ts \in Timestamps :
                     confirm_write(c, "submit_schedule", SHEET_NAME,
                                   schedule_row(c, ts, user_data[c]["formatted_data"],
                                                DictGet(user_data[c], "user_name", "")),
                                   schedule_handler[c], message)
               /\ UNCHANGED schedule_handler
       /\ UNCHANGED <<personal_info_handler, concern_handler, user_data, sheets_up,
                      notify_vars>>
    \/ /\ At(c, "submit_schedule", "reply")
       /\ \E delivered \in BOOLEAN :
             IF delivered
             THEN /\ user_data' = [user_data EXCEPT ![c] = clear(@)]
                  /\ schedule_handler' =
                        [schedule_handler EXCEPT ![c] = submit_schedule_return]
                  /\ last' = Handled(c, "/submit", "submit_schedule", "ok",
                                     submit_schedule_return, running.rows, "",
                                     running.before)
             ELSE /\ last' = Handled(c, "/submit", "submit_schedule", "reply_raised",
                                     schedule_handler[c], running.rows, "",
                                     running.before)
                  /\ UNCHANGED <<user_data, schedule_handler>>
       /\ running' = Idle
       /\ UNCHANGED <<personal_info_handler, concern_handler, pending_notifications,
                      sheets_up, notify_vars>>
    \/ /\ At(c, "submit_schedule", "except")
       /\ \E delivered \in BOOLEAN :
             IF delivered
             THEN /\ schedule_handler' =
                        [schedule_handler EXCEPT ![c] = submit_schedule_return]
                  /\ last' = Handled(c, "/submit", "submit_schedule", "write_failed",
                                     submit_schedule_return, <<>>, "", running.before)
             ELSE /\ last' = Handled(c, "/submit", "submit_schedule", "except_raised",
                                     schedule_handler[c], <<>>, "", running.before)
                  /\ UNCHANGED schedule_handler
       /\ running' = Idle
       /\ UNCHANGED <<personal_info_handler, concern_handler, user_data,
                      pending_notifications, sheets_up, notify_vars>>

(***************************************************************************)
(* Personal-info dialog.                                                   *)
(***************************************************************************)
\* info_command: the discard and the removal of the draft, the reply
\* (await), then the return
info_command(c) ==
    \/ /\ Dispatch(c, "/info")
       /\ PersonalInfoAccepts(c, "/info")
       /\ \E message \in BOOLEAN :
             IF message
             THEN /\ pending_notifications' = discard(pending_notifications, c)
                  /\ user_data' = [user_data EXCEPT ![c] = DictDel(@, "personal_info")]
                  /\ running' = Suspended(c, "/info", "info_command", "reply", <<>>,
                                          user_data[c])
                  /\ last' = Handled(c, "/info", "info_command", "reply",
                                     personal_info_handler[c], <<>>, "", user_data[c])
             ELSE /\ last' = Handled(c, "/info", "info_command", "no_message",
                                     personal_info_handler[c], <<>>, "", user_data[c])
                  /\ UNCHANGED <<pending_notifications, user_data, running>>
       /\ UNCHANGED <<conversation_vars, sheets_up, notify_vars>>
    \/ /\ At(c, "info_command", "reply")
       /\ \E delivered \in BOOLEAN :
             IF delivered
             THEN /\ personal_info_handler' =
                        [personal_info_handler EXCEPT ![c] = INFO_INPUT]
                  /\ last' = Handled(c, "/info", "info_command", "ok", INFO_INPUT, <<>>,
                                     "", running.before)
             ELSE /\ last' = Handled(c, "/info", "info_command", "reply_raised",
                                     personal_info_handler[c], <<>>, "", running.before)
                  /\ UNCHANGED personal_info_handler
       /\ running' = Idle
       /\ UNCHANGED <<schedule_handler, concern_handler, user_data,
                      pending_notifications, sheets_up, notify_vars>>

\* parse_and_validate_personal_info on each text a chat may send
parsed_personal_info == [t \in Texts |-> parse_and_validate_personal_info(t)]

\* what handle_personal_info_input does with user_data d on `text`
personal_info_input_result(d, text) ==
    LET r == parsed_personal_info[text]
    IN IF r.error # None
       THEN [ret |-> INFO_INPUT, user_data |-> d, outcome |-> "error", reply |-> r.error]
       ELSE [ret |-> INFO_CONFIRM, user_data |-> DictSet(d, "personal_info", r.data),
             outcome |-> "ok", reply |-> ""]

\* handle_personal_info_input.  On a rejected text: the error reply (await),
\* then INFO_INPUT.  On an accepted text: the draft is stored, then the
\* confirmation (await), then INFO_CONFIRM.  The handler is suspended while
\* the error reply or the confirmation is awaited; an exception of that
\* reply leaves the handler.
handle_personal_info_input(c, text) ==
    \/ /\ Dispatch(c, text)
       /\ IsText(text)
       /\ PersonalInfoAccepts(c, text)
       /\ \E message \in BOOLEAN,
             res \in {personal_info_input_result(user_data[c], text)} :
                 IF ~message
                 THEN /\ last' = Handled(c, text, "handle_personal_info_input",
                                         "no_message", personal_info_handler[c], <<>>,
                                         "", user_data[c])
                      /\ UNCHANGED <<user_data, personal_info_handler, running>>
                 ELSE /\ user_data' = [user_data EXCEPT ![c] = res.user_data]
                      /\ running' = Suspended(c, text, "handle_personal_info_input",
                                              "reply", <<>>, user_data[c])
                      /\ last' = Handled(c, text, "handle_personal_info_input", "reply",
                                         personal_info_handler[c], <<>>, "",
                                         user_data[c])
                      /\ UNCHANGED personal_info_handler
       /\ UNCHANGED <<schedule_handler, concern_handler, pending_notifications,
                      sheets_up, notify_vars>>
    \/ /\ At(c, "handle_personal_info_input", "reply")
       /\ running.update = text
       /\ \E delivered \in BOOLEAN,
             res \in {personal_info_input_result(running.before, text)} :
             IF delivered
             THEN /\ personal_info_handler' =
                        [personal_info_handler EXCEPT ![c] = res.ret]
                  /\ last' = Handled(c, text, "handle_personal_info_input",
                                     res.outcome, res.ret, <<>>, res.reply,
                                     running.before)
             ELSE /\ last' = Handled(c, text, "handle_personal_info_input",
                                     "reply_raised", personal_info_handler[c], <<>>, "",
                                     running.before)
                  /\ UNCHANGED personal_info_handler
       /\ running' = Idle
       /\ UNCHANGED <<schedule_handler, concern_handler, user_data,
                      pending_notifications, sheets_up, notify_vars>>

\* row_data of submit_personal_info
personal_info_row(c, ts, personal_info) ==
    <<c, ts, personal_info.first_name, personal_info.last_name, personal_info.uri,
      personal_info.lokal, personal_info.district, personal_info.housing,
      personal_info.wife_chat_id, personal_info.wife_name>>

\* the last step of submit_personal_info and of submit_concern after the
\* row is appended: the clear and the return of END, or the exception of
\* the reply
confirm_reply(c, name) ==
    /\ At(c, name, "reply")
    /\ \E delivered \in BOOLEAN :
          IF delivered
          THEN /\ user_data' = [user_data EXCEPT ![c] = clear(@)]
               /\ last' = Handled(c, "/submit", name, "ok", END, running.rows, "",
                                  running.before)
          ELSE /\ last' = Handled(c, "/submit", name, "reply_raised",
                                  ConversationState(c, "/submit"), running.rows, "",
                                  running.before)
               /\ UNCHANGED user_data
    /\ running' = Idle
    /\ UNCHANGED <<pending_notifications, sheets_up, notify_vars>>

\* their last step after a caught exception of the write: the return of
\* END, or the exception of the reply of the except clause
confirm_except(c, name) ==
    /\ At(c, name, "except")
    /\ \E delivered \in BOOLEAN :
          last' = Handled(c, "/submit", name,
                          IF delivered THEN "write_failed" ELSE "except_raised",
                          IF delivered THEN END ELSE ConversationState(c, "/submit"),
                          <<>>, "", running.before)
    /\ running' = Idle
    /\ UNCHANGED <<user_data, pending_notifications, sheets_up, notify_vars>>

\* submit_personal_info: as submit_schedule, with END returned after the
\* write, failed or not
submit_personal_info(c) ==
    \/ /\ Dispatch(c, "/submit")
       /\ PersonalInfoAccepts(c, "/submit")
       /\ IF ~Has(user_data[c], "personal_info")
          THEN /\ \E delivered \in BOOLEAN :
                     IF delivered
                     THEN /\ personal_info_handler' =
                                [personal_info_handler EXCEPT ![c] = END]
                          /\ last' = Handled(c, "/submit", "submit_personal_info",
                                             "no_data", END, <<>>, "", user_data[c])
                     ELSE /\ last' = Handled(c, "/submit", "submit_personal_info",
                                             "reply_raised", personal_info_handler[c],
                                             <<>>, "", user_data[c])
                          /\ UNCHANGED personal_info_handler
               /\ UNCHANGED <<pending_notifications, running>>
          ELSE /\ \E message \in BOOLEAN, ts \in Timestamps :
                     confirm_write(c, "submit_personal_info", PERSONAL_INFO_SHEET,
                                   personal_info_row(c, ts, user_data[c]["personal_info"]),
                                   personal_info_handler[c], message)
               /\ UNCHANGED personal_info_handler
       /\ UNCHANGED <<schedule_handler, concern_handler, user_data, sheets_up,
                      notify_vars>>
    \/ /\ confirm_reply(c, "submit_personal_info")
       /\ personal_info_handler' =
             IF last'.outcome = "ok"
             THEN [personal_info_handler EXCEPT ![c] = END]
             ELSE personal_info_handler
       /\ UNCHANGED <<schedule_handler, concern_handler>>
    \/ /\ confirm_except(c, "submit_personal_info")
       /\ personal_info_handler' =
             IF last'.outcome = "write_failed"
             THEN [personal_info_handler EXCEPT ![c] = END]
             ELSE personal_info_handler
       /\ UNCHANGED <<schedule_handler, concern_handler>>

(***************************************************************************)
(* Concern dialog.                                                         *)
(***************************************************************************)
\* concern_command: the discard, the reply (await), then the return
concern_command(c) ==
    \/ /\ Dispatch(c, "/concern")
       /\ ConcernAccepts(c, "/concern")
       /\ \E message \in BOOLEAN :
             IF message
             THEN /\ pending_notifications' = discard(pending_notifications, c)
                  /\ running' = Suspended(c, "/concern", "concern_command", "reply",
                                          <<>>, user_data[c])
                  /\ last' = Handled(c, "/concern", "concern_command", "reply",
                                     concern_handler[c], <<>>, "", user_data[c])
             ELSE /\ last' = Handled(c, "/concern", "concern_command", "no_message",
                                     concern_handler[c], <<>>, "", user_data[c])
                  /\ UNCHANGED <<pending_notifications, running>>
       /\ UNCHANGED <<dialog_vars, sheets_up, notify_vars>>
    \/ /\ At(c, "concern_command", "reply")
       /\ \E delivered \in BOOLEAN :
             IF delivered
             THEN /\ concern_handler' = [concern_handler EXCEPT ![c] = CONCERN_INPUT]
                  /\ last' = Handled(c, "/concern", "concern_command", "ok",
                                     CONCERN_INPUT, <<>>, "", running.before)
             ELSE /\ last' = Handled(c, "/concern", "concern_command", "reply_raised",
                                     concern_handler[c], <<>>, "", running.before)
                  /\ UNCHANGED concern_handler
       /\ running' = Idle
       /\ UNCHANGED <<schedule_handler, personal_info_handler, user_data,
                      pending_notifications, sheets_up, notify_vars>>

\* handle_concern_input: the message and the name are stored, then the
\* reply (await) and the return of CONCERN_INPUT, the state the conversation
\* is in already.  The handler is suspended while the reply is awaited; an
\* exception of the reply leaves it.
handle_concern_input(c, text) ==
    \/ /\ Dispatch(c, text)
       /\ IsText(text)
       /\ ConcernAccepts(c, text)
       /\ \E message \in BOOLEAN :
             IF message
             THEN /\ user_data' = [user_data EXCEPT ![c] =
                                      DictSet(DictSet(@, "concern_message", text),
                                              "user_name", FullName(c))]
                  /\ running' = Suspended(c, text, "handle_concern_input", "reply",
                                          <<>>, user_data[c])
                  /\ last' = Handled(c, text, "handle_concern_input", "reply",
                                     CONCERN_INPUT, <<>>, "", user_data[c])
             ELSE /\ last' = Handled(c, text, "handle_concern_input", "no_message",
                                     CONCERN_INPUT, <<>>, "", user_data[c])
                  /\ UNCHANGED <<user_data, running>>
       /\ UNCHANGED <<conversation_vars, pending_notifications, sheets_up, notify_vars>>
    \/ /\ At(c, "handle_concern_input", "reply")
       /\ running.update = text
       /\ \E delivered \in BOOLEAN :
             last' = Handled(c, text, "handle_concern_input",
                             IF delivered THEN "ok" ELSE "reply_raised",
                             CONCERN_INPUT, <<>>, "", running.before)
       /\ running' = Idle
       /\ UNCHANGED <<dialog_vars, pending_notifications, sheets_up, notify_vars>>

\* row_data of submit_concern
concern_row(c, ts, user_name, concern_message) == <<c, ts, user_name, concern_message>>

\* submit_concern: as submit_personal_info
submit_concern(c) ==
    \/ /\ Dispatch(c, "/submit")
       /\ ConcernAccepts(c, "/submit")
       /\ IF Falsy(DictGet(user_data[c], "concern_message", None))
          THEN /\ \E delivered \in BOOLEAN :
                     IF delivered
                     THEN /\ concern_handler' = [concern_handler EXCEPT ![c] = END]
                          /\ last' = Handled(c, "/submit", "submit_concern", "no_data",
                                             END, <<>>, "", user_data[c])
                     ELSE /\ last' = Handled(c, "/submit", "submit_concern",
                                             "reply_raised", concern_handler[c], <<>>,
                                             "", user_data[c])
                          /\ UNCHANGED concern_handler
               /\ UNCHANGED <<pending_notifications, running>>
          ELSE /\ \E message \in BOOLEAN, ts \in Timestamps :
                     confirm_write(c, "submit_concern", INBOX_SHEET,
                                   concern_row(c, ts,
                                               DictGet(user_data[c], "user_name", ""),
                                               user_data[c]["concern_message"]),
                                   concern_handler[c], message)
               /\ UNCHANGED concern_handler
       /\ UNCHANGED <<schedule_handler, personal_info_handler, user_data, sheets_up,
                      notify_vars>>
    \/ /\ confirm_reply(c, "submit_concern")
       /\ concern_handler' =
             IF last'.outcome = "ok"
             THEN [concern_handler EXCEPT ![c] = END]
             ELSE concern_handler
       /\ UNCHANGED <<schedule_handler, personal_info_handler>>
    \/ /\ confirm_except(c, "submit_concern")
       /\ concern_handler' =
             IF last'.outcome = "write_failed"
             THEN [concern_handler EXCEPT ![c] = END]
             ELSE concern_handler
       /\ UNCHANGED <<schedule_handler, personal_info_handler>>

(***************************************************************************)
(* An update no handler accepts is dropped.                                *)
(***************************************************************************)
no_handler(c, u) ==
    /\ Dispatch(c, u)
    /\ u \notin TopLevelCommands
    /\ ~ScheduleAccepts(c, u) /\ ~PersonalInfoAccepts(c, u) /\ ~ConcernAccepts(c, u)
    /\ ~ReviewAccepts(c, u)
    /\ last' = Handled(c, u, "", "ignored", END, <<>>, "", user_data[c])
    /\ UNCHANGED <<dialog_vars, pending_notifications, sheets_up, running, notify_vars>>

(***************************************************************************)
(* The store (environment) becomes unreachable or reachable again.         *)
(***************************************************************************)
StoreChange ==
    /\ sheets_up' = ~sheets_up
    /\ UNCHANGED <<dialog_vars, pending_notifications, running, notify_vars, last>>

(***************************************************************************)
(* notify_pending, the background task.                                    *)
(***************************************************************************)
\* the lists list(s) may return: the elements of s in any order
Orderings(s) ==
    {l \in [1..Cardinality(s) -> s] : \A i, j \in 1..Cardinality(s) : i # j => l[i] # l[j]}

\* what a step of notify_pending leaves in `last`: the chat of the attempt
\* and "started" (the snapshot was taken and the first delivery began),
\* "delivered", "failed" (send_message raised), "absent" (remove raised) or
\* "crashed" (an exception left the loop)
Attempt(chat, outcome) ==
    Handled(chat, "", "notify_pending", outcome, END, <<>>, "", EmptyDict)

\* the exception raised inside the try block of the loop body, or None:
\* send_message raises when the delivery fails, and remove(chat_id) raises
\* KeyError when the chat is no longer in the set
loop_body_exception(delivered, chat, pending) ==
    IF ~delivered THEN "TelegramError"
    ELSE IF chat \notin pending THEN "KeyError"
    ELSE None

\* an except clause that catches the errors of the delivery only
except_TelegramError(exc) == exc = "TelegramError"

\* `except Exception` catches every exception of the loop body
except_Exception(exc) == exc \in {"TelegramError", "KeyError"}

\* a successful delivery that leaves the chat in the set
remove_skipped(s, x) == s

\* pending_notifications.remove(chat_id), for a chat that is in the set
remove(s, x) == s \ {x}

\* the loop wakes up: with an empty registry it sleeps again, else it takes
\* the snapshot and starts the delivery to its first chat
notify_wake ==
    /\ notify_pc = "sleep"
    /\ IF pending_notifications = {}
       THEN UNCHANGED <<notify_vars, last>>
       ELSE /\ notify_list' \in Orderings(pending_notifications)
            /\ notify_idx' = 1
            /\ notify_pc' = "send"
            /\ last' = Attempt(notify_list'[1], "started")
    /\ UNCHANGED <<dialog_vars, pending_notifications, sheets_up, running>>

\* the delivery in flight completes: on success remove(chat_id); an exception
\* of the delivery or of remove is caught by the except clause, which
\* discards; then the next chat of the snapshot, or sleep.  An exception the
\* except clause does not catch ends the task.
notify_step(delivered) ==
    /\ notify_pc = "send"
    /\ LET chat == notify_list[notify_idx]
           exc == loop_body_exception(delivered, chat, pending_notifications)
       IN  IF exc # None /\ ~except_Exception(exc)
           THEN /\ notify_pc' = "dead"
                /\ last' = Attempt(chat, "crashed")
                /\ UNCHANGED <<pending_notifications, notify_list, notify_idx>>
           ELSE /\ pending_notifications' =
                      IF exc = None THEN remove(pending_notifications, chat)
                      ELSE discard(pending_notifications, chat)
                /\ last' = Attempt(chat, CASE exc = None -> "delivered"
                                           [] exc = "TelegramError" -> "failed"
                                           [] exc = "KeyError" -> "absent")
                /\ IF notify_idx < Len(notify_list)
                   THEN /\ notify_idx' = notify_idx + 1
                        /\ UNCHANGED <<notify_pc, notify_list>>
                   ELSE /\ notify_pc' = "sleep"
                        /\ notify_list' = <<>>
                        /\ notify_idx' = 0
    /\ UNCHANGED <<dialog_vars, sheets_up, running>>

notify_pending == notify_wake \/ \E delivered \in BOOLEAN : notify_step(delivered)

(***************************************************************************)
(* The program, with one chat sending every kind of update.                *)
(***************************************************************************)
Next ==
    \/ \E c \in DialogChats : start(c)
    \/ \E c \in DialogChats : help_command(c)
    \/ \E c \in DialogChats : chatid_command(c)
    \/ \E c \in DialogChats : guidelines_command(c)
    \/ \E c \in DialogChats : stats_command(c)
    \/ \E c \in DialogChats : yes_command(c)
    \/ \E c \in DialogChats : review_command(c)
    \/ \E c \in DialogChats : cancel(c)
    \/ \E c \in DialogChats : send_command(c)
    \/ \E c \in DialogChats, text \in Texts : handle_schedule_input(c, text)
    \/ \E c \in DialogChats : submit_schedule(c)
    \/ \E c \in DialogChats : info_command(c)
    \/ \E c \in DialogChats, text \in Texts : handle_personal_info_input(c, text)
    \/ \E c \in DialogChats : submit_personal_info(c)
    \/ \E c \in DialogChats : concern_command(c)
    \/ \E c \in DialogChats, text \in Texts : handle_concern_input(c, text)
    \/ \E c \in DialogChats : submit_concern(c)
    \/ \E c \in DialogChats, u \in Commands \cup Texts : no_handler(c, u)
    \/ StoreChange
    \/ notify_pending

Spec == Init /\ [][Next]_vars

(***************************************************************************)
(* The registry and the background task, with every chat sending the       *)
(* updates that add to the registry (/stats, whose write fails while the   *)
(* store is unreachable) and that discard from it (/send).                 *)
(***************************************************************************)
NextNotify ==
    \/ \E c \in Chats : stats_command(c)
    \/ \E c \in Chats : send_command(c)
    \/ StoreChange
    \/ notify_pending

SpecNotify == Init /\ [][NextNotify]_vars

\* asyncio runs the task whenever it is ready: it wakes after its sleep, and
\* a delivery in flight completes
FairSpecNotify == SpecNotify /\ WF_vars(notify_pending)

(***************************************************************************)
(* The validators and parsers on their own: one behaviour is one call of   *)
(* one function on one input, and `last` holds the call and its result.    *)
(***************************************************************************)
\* largest hour and largest minute written in the time inputs
MaxHour == 25
MaxMinute == 60

\* what a call of a pure function leaves in `last`: its name, its argument
\* and the value it returned
Called(fn, arg, result) ==
    [chat |-> 0, update |-> arg, name |-> fn, outcome |-> "returned", ret |-> END,
     rows |-> <<>>, reply |-> result, joined |-> {}, before |-> EmptyDict]

\* the two decimal digits of n < 100
TwoDigits(n) == DigitChar[(n \div 10) + 1] \o DigitChar[(n % 10) + 1]

\* time_str: H, HH, HMM and HHMM digit strings, the hours with a period or
\* other characters attached, and strings without a usable time
TimeInputs ==
    {IntToStr(h) : h \in 0..MaxHour}
        \cup {TwoDigits(h) : h \in 0..MaxHour}
        \cup {IntToStr(h) \o TwoDigits(m) : h \in 0..MaxHour, m \in 0..MaxMinute}
        \cup {TwoDigits(h) \o TwoDigits(m) : h \in 0..MaxHour, m \in 0..MaxMinute}
        \cup {IntToStr(h) \o sfx : h \in 0..MaxHour,
                                   sfx \in {"AM", " pm", ":30 PM", ":75am", ":30"}}
        \cup {"", "noon", "AM", " 5 ", "5 a m", "00000", "12345", "0530AM"}
        \cup {"\t5 pm\n", "5\tAM", "5\n30", "\r\n", "\f0530\r", "5pm",
              ""}

\* the day field: the 14 names of days_mapping in several spellings and
\* between whitespace, and other tokens
DayFields ==
    UNION {{d, Capitalize(d), Upper(d), "  " \o d \o " ", "\t" \o d \o "\r\n"} :
              d \in DOMAIN days_mapping}
        \cup {"thursdayy", "Thurs", "Tues", "Monkey", "sunny", "wedding", "xx", "",
              "th", "m o n", "7", "m\ton", "\n", "\fthurs\f", "mon", "fri",
              "sunday", "tue", "mon", ""}

\* lines of 5 valid fields in spellings far from their normalized form
NormalizationLines ==
    {d \o "," \o t \o "," \o l \o "," \o g \o "," \o lang :
        d \in {"thursday", " SUN "},
        t \in {"0", "13", "12 pm", "0530AM", "1259", " 5:45 am"},
        l \in {"green condo", "  v   LUNA ", "mcDonald o'neil", "3rd st.", "am pm",
               "green\tcondo", "\nv\r\nLUNA\f", "ab", "greencondo"},
        g \in {"slr2", " s"}, lang \in {"english", "bURmese"}}

\* lines with the letter U+0149 or the letter U+02BC in one field: as the
\* location, alone and inside words, and in the day, the role code and the
\* language
CaseMappingLines ==
    {"thu, 0, " \o l \o ", r1, tag" :
        l \in {SMALL_N_PRECEDED_BY_APOSTROPHE,
               MODIFIER_LETTER_APOSTROPHE \o "N",
               MODIFIER_LETTER_APOSTROPHE \o "n",
               "a" \o SMALL_N_PRECEDED_BY_APOSTROPHE,
               SMALL_N_PRECEDED_BY_APOSTROPHE \o "EW haven"}}
        \cup {SMALL_N_PRECEDED_BY_APOSTROPHE \o ", 0, x, r1, tag",
              "thu, 0, x, r1" \o SMALL_N_PRECEDED_BY_APOSTROPHE \o ", tag",
              "thu, 0, x, r1, " \o SMALL_N_PRECEDED_BY_APOSTROPHE \o "tag",
              "thu, 0, x, r1, ta" \o SMALL_N_PRECEDED_BY_APOSTROPHE}

\* text of the schedule dialog: every day field in an otherwise valid line,
\* lines of 5 segments with each field valid or not, and lines of another
\* number of segments
ScheduleLines ==
    {d \o ", 5AM, Green Condo, R1, Tag" : d \in DayFields}
        \cup {d \o "," \o t \o "," \o l \o "," \o g \o "," \o lang :
                 d \in {"Thu", "xx"}, t \in {"5:45AM", "99", ""},
                 l \in {"Green Condo", ""}, g \in {"R1", "zz"},
                 lang \in {"Tag", "english", "qq"}}
        \cup {"", "Thu", "Thu, 5AM, R1, Tag", "xx,99,zz,qq",
              "Thu, 5AM, Green, Condo, R1, Tag", "xx,99,,zz,qq,",
              "mon, 5, a, s, eng", "mon, 5, ab, s, eng", "mon, 5, a, s, eng",
              "mon, 5, a, r1, tag"}
        \cup NormalizationLines
        \cup CaseMappingLines

\* text of the personal-info dialog: 8 segments separated by periods or by
\* commas with each uri and each wife chat id, lines of another number of
\* segments, and lines with tabs and line breaks around and inside the
\* segments
PersonalInfoLines ==
    {"Juan. Cruz. " \o uri \o ". V Luna. D1. Condo. " \o id \o ". Maria" :
        uri \in {"Minister", "min", "M", "ram", "Stu", "x", "", "1"},
        id \in {"0", "000", "55247753", "12a", "", "abc", "-1", "1 2"}}
        \cup {"Ana, Cruz, " \o uri \o ", V Luna, D1, St. Peter, " \o id \o ", None" :
                 uri \in {"Reg", "x"}, id \in {"0", "12a"}}
        \cup {"", "a.b.c", "Juan. Cruz. Min. V Luna. D1. St. Peter. 0. None",
              "a,b,c,d,e,f,g"}
        \cup {"Juan.\nCruz.\nMin.\nV Luna.\nD1.\nCondo.\n0.\nNone",
              "\tjuan\t. dela\ncruz .\tmon. v\t luna.\fd1. green\r\ncondo. 0\n.none\n",
              "Juan. Cruz. min\n. V Luna. D1. Condo. 1\t2. Maria",
              "Juan. Cruz. \n. V Luna. D1. Condo. \t. Maria",
              "Juan. Cruz. Min. V Luna. D1. Condo. 0. None",
              "Juan. Cruz. Min. V Luna. D1. Condo. 0. None",
              "Juan. Cruz. Min. VLuna. D1. Condo. 0. None",
              "Juan. Cruz. reg. V Luna. D1. Condo. 12. None"}

\* number of consecutive days, from Today on, taken as the current date
NumDates == 14

\* today: NumDates consecutive days, which go through every weekday
Dates == {Today + i : i \in 0..(NumDates - 1)}

\* data['day'] of a draft: the abbreviations format_day returns
DraftDays == {"Mon", "Tue", "Wed", "Thu", "Fri", "Sat", "Sun"}

call_format_time(time_str) ==
    /\ last = NoUpdate
    /\ last' = Called("format_time", time_str, format_time(time_str))
    /\ UNCHANGED <<dialog_vars, pending_notifications, sheets_up, running, notify_vars>>

call_parse_and_validate_schedule_input(text) ==
    /\ last = NoUpdate
    /\ last' = Called("parse_and_validate_schedule_input", text,
                      parse_and_validate_schedule_input(text))
    /\ UNCHANGED <<dialog_vars, pending_notifications, sheets_up, running, notify_vars>>

call_parse_and_validate_personal_info(text) ==
    /\ last = NoUpdate
    /\ last' = Called("parse_and_validate_personal_info", text,
                      parse_and_validate_personal_info(text))
    /\ UNCHANGED <<dialog_vars, pending_notifications, sheets_up, running, notify_vars>>

\* the date computation of handle_schedule_input on the date `today` for a
\* draft of the day `day`
call_target_date(today, day) ==
    /\ last = NoUpdate
    /\ last' = Called("target_date", [today |-> today, day |-> day],
                      [target_date |-> target_date(today, day),
                       date_display |-> date_display(today, day)])
    /\ UNCHANGED <<dialog_vars, pending_notifications, sheets_up, running, notify_vars>>

NextValidators ==
    \/ \E time_str \in TimeInputs : call_format_time(time_str)
    \/ \E text \in ScheduleLines : call_parse_and_validate_schedule_input(text)
    \/ \E text \in PersonalInfoLines : call_parse_and_validate_personal_info(text)
    \/ \E today \in Dates, day \in DraftDays : call_target_date(today, day)

SpecValidators == Init /\ [][NextValidators]_vars

(***************************************************************************)
(* Properties.                                                             *)
(***************************************************************************)
Active(c) ==
    {h \in {"schedule", "personal_info", "concern"} :
        CASE h = "schedule" -> schedule_handler[c] # END
          [] h = "personal_info" -> personal_info_handler[c] # END
          [] h = "concern" -> concern_handler[c] # END}

\* the strings "H:MM AM" and "H:MM PM" with H in 1..12 and MM in 00..59
ClockTimes ==
    {IntToStr(h) \o ":" \o Pad2(m) \o " " \o p : h \in 1..12, m \in 0..59, p \in {"AM", "PM"}}

ScheduleRecordValid(d) ==
    /\ d.day \in {"Mon", "Tue", "Wed", "Thu", "Fri", "Sat", "Sun"}
    /\ d.time \in ClockTimes
    /\ d.gampanin \in VALID_GAMPANIN
    /\ d.language \in VALID_LANGUAGES

PersonalInfoRecordValid(d) ==
    /\ d.uri \in VALID_URI
    /\ IsDigit(d.wife_chat_id)

\* the confirm of the schedule dialog has just been handled with this outcome
SubmittedSchedule(outcome) == last.name = "submit_schedule" /\ last.outcome = outcome

\* C1 as stated: after /submit is handled in CONFIRM_DATA and the row is
\* written (the handler has returned), the chat has no active dialog and no
\* stored draft.
C1_SessionResetAfterSubmit ==
    SubmittedSchedule("ok") =>
        /\ Active(last.chat) = {}
        /\ ~Has(user_data[last.chat], "formatted_data")

\* C1 amended: after /submit is handled in CONFIRM_DATA and the row is
\* written, user_data of the chat is empty and the schedule dialog is still
\* active, in INPUT_DATA.  When the reply after the write raises, the
\* exception leaves the handler with the row written: user_data is as before
\* the confirm, with the draft, and the dialog is still in CONFIRM_DATA.
C1_DraftClearedDialogAtInput ==
    /\ SubmittedSchedule("ok") =>
          /\ Len(last.rows) = 1
          /\ user_data[last.chat] = EmptyDict
          /\ schedule_handler[last.chat] = INPUT_DATA
    /\ (SubmittedSchedule("reply_raised") /\ last.rows # <<>>) =>
          /\ user_data[last.chat] = last.before
          /\ Has(user_data[last.chat], "formatted_data")
          /\ schedule_handler[last.chat] = CONFIRM_DATA

C1_Witness ==
    /\ SubmittedSchedule("ok")
    /\ Has(last.before, "formatted_data")
    /\ Len(last.rows) = 1
    /\ schedule_handler[last.chat] = INPUT_DATA

\* the handler of an update of chat c finishes after its write failed: it
\* returns from its except clause, or an exception leaves it (the one of the
\* store, or the one of the reply of its except clause)
FailedWriteFinished(c) ==
    /\ last'.chat = c
    /\ last'.outcome \in {"write_failed", "raised", "except_raised"}

\* C2: when /submit is handled in CONFIRM_DATA and the write fails, then
\* when the handler has finished the chat is in pending_notifications, the
\* schedule dialog is in INPUT_DATA and the stored draft is the one from
\* before the confirm.
C2_FailedConfirmKeepsDraft ==
    [][\A c \in Chats :
          (submit_schedule(c) /\ FailedWriteFinished(c))
          => /\ c \in pending_notifications'
             /\ schedule_handler'[c] = INPUT_DATA
             /\ Has(user_data'[c], "formatted_data")
             /\ user_data'[c]["formatted_data"] = last'.before["formatted_data"]]_vars

\* C3 as stated: right after a failed schedule confirmation, a /submit sent
\* next (no /send and no text in between) is handled by the schedule dialog
\* again, with the retained draft.
C3_ImmediateResubmit ==
    ((SubmittedSchedule("write_failed") \/ SubmittedSchedule("raised")) /\ running = Idle)
        => /\ ScheduleAccepts(last.chat, "/submit")
           /\ Has(user_data[last.chat], "formatted_data")

\* C3 amended: after a schedule confirmation whose failed write was caught,
\* the chat can retry without /send but not without the text: the dialog is
\* in INPUT_DATA, where the schedule dialog does not handle /submit and
\* handles every text; and once a text has been accepted there, /submit is
\* handled again with the draft parsed from that text.  After a confirmation
\* that an exception left (the write failed with an exception that is not
\* caught, or the reply of the except clause raised), the dialog is still in
\* CONFIRM_DATA with user_data as before, and /submit is handled again.
C3_RetryNeedsText ==
    /\ SubmittedSchedule("write_failed") =>
          /\ schedule_handler[last.chat] = INPUT_DATA
          /\ Has(user_data[last.chat], "formatted_data")
          /\ ~ScheduleAccepts(last.chat, "/submit")
          /\ \A t \in Texts : ScheduleAccepts(last.chat, t)
    /\ (SubmittedSchedule("raised") \/ SubmittedSchedule("except_raised")) =>
          /\ schedule_handler[last.chat] = CONFIRM_DATA
          /\ user_data[last.chat] = last.before
          /\ Has(user_data[last.chat], "formatted_data")
          /\ ScheduleAccepts(last.chat, "/submit")
    /\ (last.name = "handle_schedule_input" /\ last.outcome = "ok") =>
          /\ ScheduleAccepts(last.chat, "/submit")
          /\ Has(user_data[last.chat], "formatted_data")
          /\ user_data[last.chat]["formatted_data"] = parsed_schedule[last.update].data

\* a text is accepted again while the draft of a failed confirmation is
\* still stored and the chat is still pending
C3_Witness ==
    /\ last.name = "handle_schedule_input"
    /\ last.outcome = "ok"
    /\ Has(last.before, "formatted_data")
    /\ last.chat \in pending_notifications
    /\ schedule_handler[last.chat] = CONFIRM_DATA

\* an entry-point command has just been handled: its handler has returned
Entered(name) == last.name = name /\ last.outcome = "ok"

\* C4: after an entry-point command (/send, /info, /concern) is handled, the
\* chat has no stored draft of that dialog, is not in pending_notifications,
\* and the dialog is in its input step.
C4_EntryPointClearsDraft ==
    /\ Entered("send_command") =>
          /\ ~Has(user_data[last.chat], "formatted_data")
          /\ last.chat \notin pending_notifications
          /\ schedule_handler[last.chat] = INPUT_DATA
    /\ Entered("info_command") =>
          /\ ~Has(user_data[last.chat], "personal_info")
          /\ last.chat \notin pending_notifications
          /\ personal_info_handler[last.chat] = INFO_INPUT
    /\ Entered("concern_command") =>
          /\ ~Has(user_data[last.chat], "concern_message")
          /\ last.chat \notin pending_notifications
          /\ concern_handler[last.chat] = CONCERN_INPUT

\* C5: /cancel is handled whenever some dialog of the chat is active, and
\* after it is handled (cancel has returned) the chat has no active dialog
\* and no stored draft.
C5_CancelEndsEveryDialog ==
    /\ \A c \in Chats :
          Active(c) # {} =>
             \/ ScheduleAccepts(c, "/cancel")
             \/ PersonalInfoAccepts(c, "/cancel")
             \/ ConcernAccepts(c, "/cancel")
    /\ (last.name = "cancel" /\ last.outcome = "ok") =>
          /\ Active(last.chat) = {}
          /\ user_data[last.chat] = EmptyDict

\* C6: a chat never has more than one active dialog.
C6_AtMostOneDialog == \A c \in Chats : Cardinality(Active(c)) <= 1

\* C7: whenever the schedule dialog is in CONFIRM_DATA or the personal-info
\* dialog in INFO_CONFIRM, the draft of that dialog is stored and valid.
C7_DraftAtConfirmation ==
    \A c \in Chats :
       /\ schedule_handler[c] = CONFIRM_DATA =>
             /\ Has(user_data[c], "formatted_data")
             /\ ScheduleRecordValid(user_data[c]["formatted_data"])
       /\ personal_info_handler[c] = INFO_CONFIRM =>
             /\ Has(user_data[c], "personal_info")
             /\ PersonalInfoRecordValid(user_data[c]["personal_info"])

\* a step of the handler `name` on a text it has parsed: the step that
\* suspends it at the reply, or the step that completes that reply
ParsedTextStep(name) ==
    /\ last' # last
    /\ last'.name = name
    /\ running'.name = name \/ running.name = name

\* C8: when a text that fails parsing is handled by the schedule dialog (in
\* INPUT_DATA or CONFIRM_DATA) or by the personal-info dialog (in
\* INFO_INPUT), the dialog is at its input step when the handler is done
\* with the update, the stored draft is the one the handler found, and no
\* step of the handler changes user_data or pending_notifications or writes
\* a row.
C8_ParseErrorLosesNothing ==
    [][/\ (/\ ParsedTextStep("handle_schedule_input")
           /\ parsed_schedule[last'.update].error # None)
          => /\ running' = Idle => schedule_handler'[last'.chat] = INPUT_DATA
             /\ user_data' = user_data
             /\ user_data'[last'.chat] = last'.before
             /\ pending_notifications' = pending_notifications
             /\ last'.rows = <<>>
       /\ (/\ ParsedTextStep("handle_personal_info_input")
           /\ parsed_personal_info[last'.update].error # None)
          => /\ running' = Idle => personal_info_handler'[last'.chat] = INFO_INPUT
             /\ user_data' = user_data
             /\ user_data'[last'.chat] = last'.before
             /\ pending_notifications' = pending_notifications
             /\ last'.rows = <<>>]_vars

\* C9: whenever a write fails while an update of a chat is handled (the
\* row of a schedule, of personal info, of a concern, of a review, stats or
\* acknowledgement request, or the registration row of /start), the chat is
\* in pending_notifications when the handler finishes.
C9_EveryFailedWriteIsPending ==
    [][\A c \in Chats :
          (/\ FailedWriteFinished(c)
           /\ \/ start(c)
              \/ stats_command(c)
              \/ yes_command(c)
              \/ review_command(c)
              \/ submit_schedule(c)
              \/ submit_personal_info(c)
              \/ submit_concern(c))
          => c \in pending_notifications']_vars

\* C10: when the confirm of the personal-info dialog or of the concern
\* dialog meets a failed write, then when the handler has finished the chat
\* is in pending_notifications, the dialog has ended and its draft is no
\* longer stored.
C10_FailedConfirmDropsDraft ==
    [][\A c \in Chats :
          /\ (submit_personal_info(c) /\ FailedWriteFinished(c))
             => /\ c \in pending_notifications'
                /\ personal_info_handler'[c] = END
                /\ ~Has(user_data'[c], "personal_info")
          /\ (submit_concern(c) /\ FailedWriteFinished(c))
             => /\ c \in pending_notifications'
                /\ concern_handler'[c] = END
                /\ ~Has(user_data'[c], "concern_message")]_vars

(***************************************************************************)
(* Properties of the background task.                                      *)
(***************************************************************************)
\* an attempt of notify_pending has just completed with this outcome
Attempted(outcome) == last.name = "notify_pending" /\ last.outcome = outcome

\* C11: when the notification attempt for a chat completes, whether the
\* delivery succeeded or raised, the chat is absent from
\* pending_notifications.
C11_AttemptedChatIsAbsent ==
    (Attempted("delivered") \/ Attempted("failed") \/ Attempted("absent"))
        => last.chat \notin pending_notifications

\* a delivery succeeded while another chat was pending: the chat of the
\* attempt is gone and the other one is still there
C11_Witness ==
    /\ Attempted("delivered")
    /\ last.chat \notin pending_notifications
    /\ pending_notifications # {}

\* C12: notify_pending never terminates and never skips the remaining chats
\* of a cycle: whatever the outcome of an attempt (delivered, failed, or the
\* chat already removed by an entry-point command), the loop goes on with
\* the next chat of the same snapshot.
C12_LoopNeverAborts ==
    /\ [](notify_pc \in {"sleep", "send"})
    /\ [][(notify_pc = "send" /\ notify_idx < Len(notify_list) /\ notify_pending)
            => /\ notify_pc' = "send"
               /\ notify_list' = notify_list
               /\ notify_idx' = notify_idx + 1]_vars

\* /send removed the chat while its delivery was in flight, remove raised,
\* and the loop is now delivering to the next chat of the snapshot
C12_Witness ==
    /\ Attempted("absent")
    /\ notify_pc = "send"
    /\ notify_idx = 2
    /\ notify_list[1] = last.chat

\* C13: every chat that is added to pending_notifications is eventually
\* absent from it again, when the background task is scheduled fairly and
\* its deliveries complete.
C13_PendingEventuallyRemoved ==
    \A c \in Chats : (c \in pending_notifications) ~> (c \notin pending_notifications)

\* a chat was added after the snapshot of the running cycle was taken: it
\* has to wait for the next cycle
C13_Witness ==
    /\ notify_pc = "send"
    /\ \E c \in pending_notifications :
          /\ \A i \in 1..Len(notify_list) : notify_list[i] # c
          /\ last.chat = c
          /\ last.outcome = "write_failed"

\* C14: the background task starts a notification attempt only when the
\* store is reachable: no attempt begins in a state where a write would
\* still fail.
C14_NotifiesOnlyWhenStoreIsUp ==
    [][(notify_pending /\ notify_pc' = "send") => sheets_up]_vars

(***************************************************************************)
(* Properties of the rows and of the records.                              *)
(***************************************************************************)
\* C15: the residency tier of every accepted personal-info record, and
\* the value in the residency_tier column of the row appended by
\* submit_personal_info, is one of Minister, Regular, Student.
C15_ResidencyTierCanonical ==
    /\ \A c \in Chats :
          Has(user_data[c], "personal_info")
             => user_data[c]["personal_info"].uri \in {"Minister", "Regular", "Student"}
    /\ (last.name = "submit_personal_info" /\ last.outcome = "ok")
          => last.rows[1].row[5] \in {"Minister", "Regular", "Student"}

\* C16: a successful schedule confirmation appends exactly one row to the
\* schedule sheet, with the 8 fields chat_id, timestamp, day, time, role
\* code, location, submitter name, language code taken from the draft
\* stored at the confirm; a confirm with no stored draft appends no row.
C16_ScheduleRowFromDraft ==
    /\ (\/ SubmittedSchedule("ok")
        \/ SubmittedSchedule("reply")
        \/ SubmittedSchedule("reply_raised") /\ Has(last.before, "formatted_data")) =>
          /\ Len(last.rows) = 1
          /\ last.rows[1].sheet = SHEET_NAME
          /\ Has(last.before, "formatted_data")
          /\ LET row == last.rows[1].row
                 draft == last.before["formatted_data"]
             IN /\ Len(row) = 8
                /\ row[1] = last.chat
                /\ row[2] \in Timestamps
                /\ row[3] = draft.day
                /\ row[4] = draft.time
                /\ row[5] = draft.gampanin
                /\ row[6] = draft.local
                /\ row[7] = DictGet(last.before, "user_name", "")
                /\ row[8] = draft.language
    /\ (\/ SubmittedSchedule("no_data")
        \/ SubmittedSchedule("reply_raised") /\ ~Has(last.before, "formatted_data")) =>
          /\ ~Has(last.before, "formatted_data")
          /\ last.rows = <<>>
    /\ \A outcome \in {"except", "write_failed", "raised", "except_raised", "no_message"} :
          SubmittedSchedule(outcome) => last.rows = <<>>

\* the row of the draft parsed from "Thu, 5:45AM, Green Condo, R1, Tag" has
\* been appended
C16_Witness ==
    /\ SubmittedSchedule("ok")
    /\ last.rows[1].row =
          <<1, "2025-05-17 08:00:00", "Thu", "5:45 AM", "R1", "Green Condo", "User 1",
            "Tag">>

(***************************************************************************)
(* Properties of the validators and parsers.                               *)
(***************************************************************************)
\* a call of the pure function fn has just returned
Returned(fn) == last.name = fn /\ last.outcome = "returned"

\* the trimmed comma-separated segments of the line of the last call
LineFields == StripAll(Split(last.update, ","))

\* C17: parse_and_validate_schedule_input reports one error by a fixed
\* precedence: the arity error when the line has not 5 segments, whatever
\* they contain; else the error of the first invalid field in the order
\* day, time, role code, language; the location never causes a rejection.
C17_ScheduleErrorPrecedence ==
    Returned("parse_and_validate_schedule_input") =>
        LET error == last.reply.error
            day_ok == format_day(LineFields[1])
                         \in {"Mon", "Tue", "Wed", "Thu", "Fri", "Sat", "Sun"}
            time_ok == format_time(LineFields[2]) # None
            gampanin_ok == format_gampanin(LineFields[4]) # None
            language_ok == format_language(LineFields[5]) # None
        IN  IF Len(LineFields) # 5 THEN error = ScheduleArityError
            ELSE IF ~day_ok
                 THEN StartsWith(error, "*Invalid day:* _" \o LineFields[1] \o "_")
            ELSE IF ~time_ok
                 THEN StartsWith(error, "*Invalid time:* _" \o LineFields[2] \o "_")
            ELSE IF ~gampanin_ok
                 THEN StartsWith(error, "*Invalid gampanin:* _" \o LineFields[4] \o "_")
            ELSE IF ~language_ok
                 THEN StartsWith(error, "*Invalid language:* _" \o LineFields[5] \o "_")
            ELSE /\ error = None
                 /\ last.reply.data.local = format_local(LineFields[3])

\* every field of the line is invalid and the location is empty: the day is
\* the one reported
C17_Witness ==
    /\ Returned("parse_and_validate_schedule_input")
    /\ last.update = "xx,99,,zz,qq"
    /\ StartsWith(last.reply.error, "*Invalid day:* _xx_")

\* the segments of the personal-info line of the last call: separated by
\* periods when that gives 8 segments, else by commas
InfoFields ==
    IF Len(Split(last.update, ".")) = 8 THEN StripAll(Split(last.update, "."))
    ELSE StripAll(Split(last.update, ","))

\* C18: in parse_and_validate_personal_info with 8 segments an invalid uri is
\* reported before a wife chat id that is not a non-empty string of digits:
\* with both invalid the uri error is returned, the digits error only with a
\* valid uri, and an id of zeros only is accepted.
C18_UriBeforeDigits ==
    (Returned("parse_and_validate_personal_info") /\ Len(InfoFields) = 8) =>
        LET error == last.reply.error
            uri_ok == format_uri(InfoFields[3]) # None
            id == InfoFields[7]
            id_ok == id # "" /\ \A i \in 1..Len(id) : Ch(id, i) \in DOMAIN DigitValue
        IN  /\ ~uri_ok => StartsWith(error, "*Invalid Uri:* _" \o InfoFields[3] \o "_")
            /\ (uri_ok /\ ~id_ok) => error = WifeChatIdError
            /\ (uri_ok /\ id_ok) => (error = None /\ last.reply.data.wife_chat_id = id)
            /\ (error = WifeChatIdError) => (uri_ok /\ ~id_ok)
            /\ (uri_ok /\ id \in {"0", "000"}) => error = None

\* the uri and the wife chat id are both invalid and the uri is reported
C18_Witness ==
    /\ Returned("parse_and_validate_personal_info")
    /\ last.update = "Juan. Cruz. x. V Luna. D1. Condo. 12a. Maria"
    /\ StartsWith(last.reply.error, "*Invalid Uri:* _x_")

\* the value the rule of C19 gives for a string of digits: HH for at most
\* two digits and HHMM otherwise; hour >= 12 is PM, less 12 when above 12;
\* hour < 12 is AM, with 0 read as 12; None unless the hour ends in 1..12
\* and the minute is in 0..59
ClockOfDigits(digits) ==
    LET n == ToInt(digits)
        hh == IF Len(digits) <= 2 THEN n ELSE n \div 100
        mm == IF Len(digits) <= 2 THEN 0 ELSE n % 100
        hour == IF hh > 12 THEN hh - 12 ELSE IF hh = 0 THEN 12 ELSE hh
        period == IF hh >= 12 THEN "PM" ELSE "AM"
    IN  IF hour \in 1..12 /\ mm \in 0..59
        THEN IntToStr(hour) \o ":" \o TwoDigits(mm) \o " " \o period
        ELSE None

\* the strings H:MM AM and H:MM PM with H in 1..12 and MM in 00..59
ClockStrings ==
    {IntToStr(h) \o ":" \o TwoDigits(m) \o " " \o p :
        h \in 1..12, m \in 0..59, p \in {"AM", "PM"}}

\* C19: format_time on digits without AM/PM follows the HH / HHMM rule with
\* the 24-hour reading of the hour; "0" gives "12:00 AM", "5" gives
\* "5:00 AM", "12" gives "12:00 PM", "13" gives "1:00 PM", "25" is
\* rejected; and every value format_time returns is H:MM AM or H:MM PM with
\* H in 1..12 and MM in 00..59.
C19_DigitsOnlyTime ==
    Returned("format_time") =>
        /\ IsDigit(last.update) => last.reply = ClockOfDigits(last.update)
        /\ last.update = "0" => last.reply = "12:00 AM"
        /\ last.update = "5" => last.reply = "5:00 AM"
        /\ last.update = "12" => last.reply = "12:00 PM"
        /\ last.update = "13" => last.reply = "1:00 PM"
        /\ last.update = "25" => last.reply = None
        /\ last.reply # None => last.reply \in ClockStrings

\* four digits whose hour is above 12 have been read as HHMM
C19_Witness ==
    /\ Returned("format_time")
    /\ last.update = "1305"
    /\ last.reply = "1:05 PM"

\* the 7 full weekday names and the 7 three-letter abbreviations
DayNames ==
    {"monday", "tuesday", "wednesday", "thursday", "friday", "saturday", "sunday",
     "mon", "tue", "wed", "thu", "fri", "sat", "sun"}

\* C20 as stated: the day field of a schedule line is accepted exactly when, trimmed
\* and in lower case, it is a full weekday name or a three-letter
\* abbreviation; any other token gives the invalid-day error; an accepted
\* token yields one of the 7 canonical abbreviations.
C20_DayAcceptedExactly ==
    (Returned("parse_and_validate_schedule_input") /\ Len(LineFields) = 5) =>
        /\ StartsWith(last.reply.error, "*Invalid day:*")
              <=> Lower(LineFields[1]) \notin DayNames
        /\ last.reply.error = None
              => last.reply.data.day \in {"Mon", "Tue", "Wed", "Thu", "Fri", "Sat", "Sun"}

\* C20 amended: the day field of a schedule line is accepted exactly when,
\* trimmed and in lower case, its first three characters are one of mon,
\* tue, wed, thu, fri, sat, sun, whatever follows them; any other token gives
\* the invalid-day error; an accepted token yields those three characters
\* capitalized, one of the 7 canonical abbreviations.
C20_DayAcceptedByPrefix ==
    (Returned("parse_and_validate_schedule_input") /\ Len(LineFields) = 5) =>
        LET prefix == Prefix(Lower(LineFields[1]), 3)
            known == prefix \in {"mon", "tue", "wed", "thu", "fri", "sat", "sun"}
        IN  /\ StartsWith(last.reply.error, "*Invalid day:*") <=> ~known
            /\ last.reply.error = None
                  => /\ last.reply.data.day = Capitalize(prefix)
                     /\ last.reply.data.day
                           \in {"Mon", "Tue", "Wed", "Thu", "Fri", "Sat", "Sun"}

\* a token that is neither a weekday name nor an abbreviation is accepted
C20_Witness ==
    /\ Returned("parse_and_validate_schedule_input")
    /\ last.update = "Monkey, 5AM, Green Condo, R1, Tag"
    /\ last.reply.error = None
    /\ last.reply.data.day = "Mon"

\* the line built from the fields of a schedule record
ScheduleLineOf(data) ==
    data.day \o ", " \o data.time \o ", " \o data.local \o ", "
        \o data.gampanin \o ", " \o data.language

\* C21: normalization of a schedule record is idempotent: for every record
\* returned by parse_and_validate_schedule_input, parsing the line built from
\* its normalized day, time, location, role code and language succeeds and
\* returns the same record.
C21_NormalizationIdempotent ==
    (Returned("parse_and_validate_schedule_input") /\ last.reply.error = None)
        => LET again == parse_and_validate_schedule_input(ScheduleLineOf(last.reply.data))
           IN  /\ again.error = None
               /\ again.data = last.reply.data

\* the weekday of a date, Monday 0 to Sunday 6, counted from Today, which is
\* a Saturday
WeekdayOf(date) == (5 + date - Today) % 7

\* the Monday of the Monday-to-Sunday week that contains a date
MondayOf(date) == date - WeekdayOf(date)

\* the number of a day abbreviation, Mon 0 to Sun 6
WeekdayNumber(day) ==
    CHOOSE i \in 0..6 : <<"Mon", "Tue", "Wed", "Thu", "Fri", "Sat", "Sun">>[i + 1] = day

\* C22: for every current weekday and every target weekday, the date shown
\* in the schedule confirmation is today plus (target_weekday -
\* current_weekday) mod 7 days: it is never before today, at most 6 days
\* after today, its weekday is the target weekday, and it is today itself
\* when the target weekday is today's weekday.
C22_DateIsNextOccurrence ==
    Returned("target_date") =>
        LET today == last.update.today
            tw == WeekdayNumber(last.update.day)
            cw == WeekdayOf(today)
            shown == last.reply.target_date
        IN  /\ shown = today + ((tw - cw) % 7)
            /\ shown >= today
            /\ shown <= today + 6
            /\ WeekdayOf(shown) = tw
            /\ (tw = cw) => (shown = today)
            /\ last.reply.date_display = strftime(shown)

\* on a Thursday, a draft for Monday is shown with the date 4 days later
C22_Witness ==
    /\ Returned("target_date")
    /\ last.update = [today |-> Today + 5, day |-> "Mon"]
    /\ WeekdayOf(last.update.today) = 3
    /\ last.reply = [target_date |-> Today + 9, date_display |-> "May 26, 2025"]

\* C23: the date shown in the schedule confirmation always lies in
\* the current week, Monday through Sunday, that contains today, for every
\* combination of current weekday and target weekday.
C23_DateInCurrentWeek ==
    Returned("target_date") =>
        /\ last.reply.target_date >= MondayOf(last.update.today)
        /\ last.reply.target_date <= MondayOf(last.update.today) + 6

\* C24: a chat added to pending_notifications by a failed write is not
\* removed by a notification attempt that began before that failure: when
\* the write of a chat fails while the delivery of notify_pending to the same
\* chat is in flight (the add of the except clause is the last thing that
\* happened before the delivery completes), the chat is still in
\* pending_notifications after that delivery completes.
C24_LateFailureSurvivesDelivery ==
    [][\A delivered \in BOOLEAN :
          (/\ notify_step(delivered)
           /\ last.name = "stats_command"
           /\ last.outcome = "except"
           /\ last.chat = notify_list[notify_idx])
          => last.chat \in pending_notifications']_vars

\* C25: notify_pending attempts a notice only to a chat that is in
\* pending_notifications at the moment the attempt starts: a chat that left
\* the set through an entry-point command after the snapshot of the cycle
\* was taken, while the delivery to another chat was in flight, is not sent
\* the notice in that cycle.
C25_AttemptOnlyToPendingChat ==
    [][(notify_pending /\ notify_pc' = "send")
          => notify_list'[notify_idx'] \in pending_notifications']_vars

\* C26: a confirm in the concern dialog appends only a message received
\* during the current activation of the dialog: /submit handled right after
\* /concern, with no text sent since that /concern, appends no row,
\* whatever happened in earlier dialogs of the chat.
C26_ConfirmRightAfterEntryAppendsNothing ==
    [][\A c \in Chats :
          (Entered("concern_command") /\ last.chat = c /\ submit_concern(c))
          => last'.rows = <<>>]_vars

====
